---- MODULE Spec2Model ----
(***************************************************************************)
(* Dynamic Recipe & Waste Management: the recipe suggestion feature        *)
(* (modules/recipe_ml.py) and the expiry prediction feature                *)
(* (modules/expiry_ml.py) over the CSV stores they share with the          *)
(* ingredient manager (modules/ingredient.py).                             *)
(*                                                                         *)
(* Text is a sequence of one-character strings, so that str.strip(),       *)
(* str.split(','), str.title() and sorted() are computed character by      *)
(* character.  A CSV file is held as pandas wrote it (to_csv) and is       *)
(* converted by ReadCell/ReadHeader each time pandas reads it (read_csv).  *)
(***************************************************************************)
EXTENDS Integers, Sequences, FiniteSets, TLC

\* Most recipes the catalog is allowed to grow to.
MaxRecipes == 2
\* Largest ingredient id add_ingredient may hand out.
MaxIngredientId == 2

\* Largest id add_waste_entry and add_expense may hand out.
MaxWasteId == 3
MaxExpenseId == 2

\* The interpreter's recursion limit (sys.getrecursionlimit(), 1000 by
\* default), counted in nested calls of load_ml_dataset.
RecursionLimit == 3

(***************************************************************************)
(* Text                                                                    *)
(***************************************************************************)

\* pandas' missing value: what read_csv returns for an empty field.
NaN == <<"NaN">>

\* The dataset's label column, named in generate_ml_dataset.
RecipeNameCol == <<"recipe_name">>

IsSpace(c) == c = " "

\* str.upper() and str.lower(), letter by letter.
UpperCase ==
    [a |-> "A", b |-> "B", c |-> "C", d |-> "D", e |-> "E", f |-> "F",
     g |-> "G", h |-> "H", i |-> "I", j |-> "J", k |-> "K", l |-> "L",
     m |-> "M", n |-> "N", o |-> "O", p |-> "P", q |-> "Q", r |-> "R",
     s |-> "S", t |-> "T", u |-> "U", v |-> "V", w |-> "W", x |-> "X",
     y |-> "Y", z |-> "Z"]

LowerCase ==
    [A |-> "a", B |-> "b", C |-> "c", D |-> "d", E |-> "e", F |-> "f",
     G |-> "g", H |-> "h", I |-> "i", J |-> "j", K |-> "k", L |-> "l",
     M |-> "m", N |-> "n", O |-> "o", P |-> "p", Q |-> "q", R |-> "r",
     S |-> "s", T |-> "t", U |-> "u", V |-> "v", W |-> "w", X |-> "x",
     Y |-> "y", Z |-> "z"]

LowerLetters == DOMAIN UpperCase

UpperLetters == DOMAIN LowerCase

IsCased(c) == c \in LowerLetters \/ c \in UpperLetters

Upper(c) == IF c \in LowerLetters THEN UpperCase[c] ELSE c

Lower(c) == IF c \in UpperLetters THEN LowerCase[c] ELSE c

\* Code points: ' ' 32, ',' 44, 'A' 65, 'B' 66, 'a' 97, 'b' 98.
Ord(c) ==
    CASE c = " " -> 32 [] c = "," -> 44 [] c = "A" -> 65 [] c = "B" -> 66
      [] c = "a" -> 97 [] c = "b" -> 98 [] OTHER -> 127

RECURSIVE LStrip(_)
LStrip(s) == IF s # <<>> /\ IsSpace(Head(s)) THEN LStrip(Tail(s)) ELSE s

RECURSIVE RStrip(_)
RStrip(s) ==
    IF s # <<>> /\ IsSpace(s[Len(s)]) THEN RStrip(SubSeq(s, 1, Len(s) - 1)) ELSE s

\* str.strip()
Strip(s) == RStrip(LStrip(s))

\* str.lower()
LowerStr(s) == [i \in 1..Len(s) |-> Lower(s[i])]

\* str.title(): a cased character is upper-cased when the character before
\* it is not cased, lower-cased otherwise.
Title(s) ==
    [i \in 1..Len(s) |->
        IF i > 1 /\ IsCased(s[i - 1]) THEN Lower(s[i]) ELSE Upper(s[i])]

\* str.split(','): the pieces between commas, empty pieces kept.
RECURSIVE Split(_)
Split(s) ==
    IF \A i \in 1..Len(s) : s[i] # ","
    THEN <<s>>
    ELSE LET k == CHOOSE i \in 1..Len(s) :
                      s[i] = "," /\ \A j \in 1..(i - 1) : s[j] # ","
         IN  <<SubSeq(s, 1, k - 1)>> \o Split(SubSeq(s, k + 1, Len(s)))

\* Python's str <: by code point, a proper prefix first.
RECURSIVE StrLess(_, _)
StrLess(a, b) ==
    IF b = <<>> THEN FALSE
    ELSE IF a = <<>> THEN TRUE
    ELSE IF Ord(Head(a)) # Ord(Head(b)) THEN Ord(Head(a)) < Ord(Head(b))
    ELSE StrLess(Tail(a), Tail(b))

\* sorted(list(S)) for a set S of strings.
RECURSIVE SortedList(_)
SortedList(S) ==
    IF S = {} THEN <<>>
    ELSE LET m == CHOOSE x \in S : \A y \in S \ {x} : StrLess(x, y)
         IN  <<m>> \o SortedList(S \ {m})

Range(f) == {f[i] : i \in DOMAIN f}

(***************************************************************************)
(* The CSV stores                                                          *)
(***************************************************************************)

\* recipes_csv     data/recipes.csv: rows [recipe_id, recipe_name, ingredients]
\* ml_dataset_csv  data/ml_dataset.csv: header cols, rows [recipe_name, bits]
\* ingredients_csv data/ingredients.csv: rows [id, name, quantity, unit,
\*                 expiry_date, storage_type, date_added, cost]
\* last            what the last operation printed or computed
\* expiry_dataset_csv  data/expiry_dataset.csv: rows [ingredient_type,
\*                 days_since_purchase, storage_type, status]
\* today           the local date datetime.today() returns, as a day number
\* expiry_tree     the decisions of the tree DecisionTreeClassifier fits to
\*                 expiry_dataset.csv, for the feature rows asked so far
\* prompt          where predict_ingredient_expiry waits for input, or how
\*                 deep load_ml_dataset has called itself
\* waste_csv       data/waste.csv: rows [id, name, quantity, unit, reason,
\*                 date, cost]
\* expenses_csv    data/expenses.csv: rows [id, name, cost]
VARIABLES recipes_csv, ml_dataset_csv, ingredients_csv, last,
          expiry_dataset_csv, today, expiry_tree, prompt,
          waste_csv, expenses_csv

vars == <<recipes_csv, ml_dataset_csv, ingredients_csv, last,
          expiry_dataset_csv, today, expiry_tree, prompt,
          waste_csv, expenses_csv>>

\* The stores of the waste tracker and the expense tracker.
ledgers == <<waste_csv, expenses_csv>>

\* What the recipe and inventory operations leave alone.
expiry_state == <<expiry_dataset_csv, today, expiry_tree, prompt, ledgers>>

\* No handler is waiting for input: the menus read the next choice.
\* depth counts the calls of load_ml_dataset that have not returned.
Menu == [at |-> "menu", ingredient_type |-> <<>>, days_since |-> 0,
         depth |-> 0]

AtMenu == prompt = Menu

\* read_csv: an empty field is read as NaN (pandas' default na_values).
ReadCell(s) == IF s = <<>> THEN NaN ELSE s

\* to_csv: NaN is written as an empty field (na_rep = '').
WriteCell(v) == IF v = NaN THEN <<>> ELSE v

\* read_csv: an empty header field is named "Unnamed: <column index>".
ReadHeader(cols) ==
    [i \in 1..Len(cols) |->
        IF cols[i] = <<>> THEN <<"Unnamed: " \o ToString(i - 1)>> ELSE cols[i]]

\* Python's ==, on cells: NaN equals nothing, itself included.
PyEq(a, b) == a # NaN /\ b # NaN /\ a = b

\* x in list
PyIn(x, list) == \E i \in 1..Len(list) : PyEq(x, list[i])

NoFile == [exists |-> FALSE, cols |-> <<>>, rows |-> <<>>]

File(cols, rows) == [exists |-> TRUE, cols |-> cols, rows |-> rows]

\* pd.read_csv(recipes.csv): the rows as the program sees them.
ReadRecipes(file) ==
    [i \in 1..Len(file.rows) |->
        [recipe_id   |-> file.rows[i].recipe_id,
         recipe_name |-> ReadCell(file.rows[i].recipe_name),
         ingredients |-> ReadCell(file.rows[i].ingredients)]]

\* recipes_df.to_csv(recipes.csv, index=False)
WriteRecipes(df) ==
    File(<<>>,
         [i \in 1..Len(df) |->
             [recipe_id   |-> df[i].recipe_id,
              recipe_name |-> WriteCell(df[i].recipe_name),
              ingredients |-> WriteCell(df[i].ingredients)]])

(***************************************************************************)
(* generate_ml_dataset                                                     *)
(***************************************************************************)

\* [ing.strip() for ing in ingredients_str.split(',')]
CleanIngredients(ingredients_str) ==
    LET parts == Split(ingredients_str)
    IN  [i \in 1..Len(parts) |-> Strip(parts[i])]

\* Vocabulary with the tokens left as split(',') returns them (no strip()).
VocabularyUnstripped(recipes_df) ==
    SortedList(UNION {Range(Split(recipes_df[i].ingredients)) :
                          i \in 1..Len(recipes_df)})

\* all_ingredients: the set of every recipe's cleaned tokens, then sorted.
Vocabulary(recipes_df) ==
    SortedList(UNION {Range(CleanIngredients(recipes_df[i].ingredients)) :
                          i \in 1..Len(recipes_df)})

\* BinaryRow comparing each vocabulary ingredient with the recipe's first
\* ingredient only.
BinaryRowFirstIngredient(row, all_ingredients) ==
    LET ingredients_list == CleanIngredients(row.ingredients)
    IN  [recipe_name |-> row.recipe_name,
         bits |-> [k \in 1..Len(all_ingredients) |->
                      IF all_ingredients[k] = ingredients_list[1]
                      THEN 1 ELSE 0]]

\* binary_row: the label and one 0/1 entry per vocabulary ingredient.
BinaryRow(row, all_ingredients) ==
    LET ingredients_list == CleanIngredients(row.ingredients)
    IN  [recipe_name |-> row.recipe_name,
         bits |-> [k \in 1..Len(all_ingredients) |->
                      IF \E j \in 1..Len(ingredients_list) :
                             all_ingredients[k] = ingredients_list[j]
                      THEN 1 ELSE 0]]

\* ml_df = pd.DataFrame(ml_data); ml_df.to_csv(ml_dataset.csv, index=False).
\* pd.DataFrame([]) has no columns, and to_csv then writes an empty header.
WriteDataset(ml_data, all_ingredients) ==
    File(IF ml_data = <<>> THEN <<>> ELSE <<RecipeNameCol>> \o all_ingredients,
         [i \in 1..Len(ml_data) |->
             [recipe_name |-> WriteCell(ml_data[i].recipe_name),
              bits |-> ml_data[i].bits]])

\* generate_ml_dataset(): the dataset file afterwards.  Without recipes.csv
\* FileNotFoundError is caught and the dataset file is left as it was.
GenerateMlDataset(recipes, ml) ==
    IF ~recipes.exists THEN ml
    ELSE LET recipes_df == ReadRecipes(recipes)
             all_ingredients == Vocabulary(recipes_df)
             ml_data == [i \in 1..Len(recipes_df) |->
                            BinaryRow(recipes_df[i], all_ingredients)]
         IN  WriteDataset(ml_data, all_ingredients)

(***************************************************************************)
(* Results                                                                 *)
(***************************************************************************)

NoResult ==
    [op |-> "none", outcome |-> "none", available |-> <<>>,
     features |-> <<>>, labels |-> <<>>, nrows |-> 0, vector |-> <<>>,
     suggested |-> <<>>, feasibility |-> "none", missing |-> <<>>,
     listed |-> <<>>,
     ingredient_type |-> <<>>, days_since |-> 0, storage_type |-> <<>>,
     predicted_status |-> "none", predictions |-> <<>>, total |-> 0,
     safe_items |-> <<>>, expire_soon_items |-> <<>>, expired_items |-> <<>>]

(***************************************************************************)
(* add_new_recipe, and menu choice 4 (Regenerate ML Dataset)               *)
(***************************************************************************)

\* What the user may type as a recipe name.
NameInputs == {<<>>, <<"a">>, <<" ", "a">>, <<"B">>}

\* What the user may type as the ingredients line.
IngredientsInputs ==
    {<<" ">>, <<" ", "A", ",", " ", "B">>, <<"b", ",">>}

\* new_id = recipes_df['recipe_id'].max() + 1 if len(recipes_df) > 0 else 1
NewRecipeId(recipes_df) ==
    IF Len(recipes_df) > 0
    THEN (CHOOSE m \in {recipes_df[i].recipe_id : i \in 1..Len(recipes_df)} :
              \A i \in 1..Len(recipes_df) : recipes_df[i].recipe_id <= m) + 1
    ELSE 1

RecipeNames(recipes_df) == [i \in 1..Len(recipes_df) |-> recipes_df[i].recipe_name]

AddNewRecipe(name_input, ingredients_input) ==
    LET recipes_df == ReadRecipes(recipes_csv)
        recipe_name == Title(Strip(name_input))
        ingredients == Strip(ingredients_input)
        new_recipe == [recipe_id |-> NewRecipeId(recipes_df),
                       recipe_name |-> recipe_name,
                       ingredients |-> ingredients]
        saved == WriteRecipes(Append(recipes_df, new_recipe))
        result(outcome) == [NoResult EXCEPT !.op = "add_new_recipe",
                                            !.outcome = outcome]
    IN  /\ AtMenu
        /\ UNCHANGED <<ingredients_csv, expiry_state>>
        /\ IF ~recipes_csv.exists
           THEN /\ last' = result("recipes_not_found")
                /\ UNCHANGED <<recipes_csv, ml_dataset_csv>>
           ELSE IF PyIn(recipe_name, RecipeNames(recipes_df))
           THEN /\ last' = result("already_exists")
                /\ UNCHANGED <<recipes_csv, ml_dataset_csv>>
           ELSE IF ingredients = <<>>
           THEN /\ last' = result("no_ingredients")
                /\ UNCHANGED <<recipes_csv, ml_dataset_csv>>
           ELSE /\ Len(recipes_df) < MaxRecipes
                /\ recipes_csv' = saved
                /\ ml_dataset_csv' = GenerateMlDataset(saved, ml_dataset_csv)
                /\ last' = result("added")

RegenerateDataset ==
    /\ ml_dataset_csv' = GenerateMlDataset(recipes_csv, ml_dataset_csv)
    /\ last' = [NoResult EXCEPT !.op = "generate_ml_dataset",
                    !.outcome = IF recipes_csv.exists THEN "generated"
                                ELSE "recipes_not_found"]
    /\ AtMenu
    /\ UNCHANGED <<recipes_csv, ingredients_csv, expiry_state>>

(***************************************************************************)
(* The ingredient store (modules/ingredient.py)                            *)
(***************************************************************************)

\* What the user may type as an ingredient name.
IngredientNameInputs == {<<"a">>, <<"b", " ">>}

\* valid_units and valid_storage of add_ingredient
valid_units ==
    {<<"g">>, <<"k", "g">>, <<"m", "l">>, <<"l">>,
     <<"p", "i", "e", "c", "e", "s">>, <<"s", "l", "i", "c", "e", "s">>}

\* valid_storage that takes 'shelf' as well.
ValidStorageWithShelf ==
    {<<"f", "r", "i", "d", "g", "e">>, <<"p", "a", "n", "t", "r", "y">>,
     <<"f", "r", "e", "e", "z", "e", "r">>, <<"s", "h", "e", "l", "f">>}

valid_storage ==
    {<<"f", "r", "i", "d", "g", "e">>, <<"p", "a", "n", "t", "r", "y">>,
     <<"f", "r", "e", "e", "z", "e", "r">>}

\* The unit and the storage type the user types.
UnitInputs == {<<"K", "g">>}

StorageInputs == {<<"F", "r", "i", "d", "g", "e", " ">>}

\* Quantities the user may type (add_ingredient re-prompts unless > 0,
\* update_ingredient unless >= 0).
QuantityInputs == {0, 1}

\* An expiry date as text.  Every date of the model lies in one month, so the
\* text kept is the day of the month as typed, "02" or "2"; day 0 of the
\* clock is the first of the month.
DecimalDigits == <<"0", "1", "2", "3", "4", "5", "6", "7", "8", "9">>

DigitOf(c) == (CHOOSE k \in 1..10 : DecimalDigits[k] = c) - 1

DayOfMonth(text) ==
    IF Len(text) = 1 THEN DigitOf(text[1])
    ELSE 10 * DigitOf(text[1]) + DigitOf(text[2])

\* datetime.strptime(expiry_date, "%Y-%m-%d") takes a day of one digit as
\* well as of two, from 1 to 31.
StrptimeAccepts(text) ==
    /\ Len(text) \in {1, 2}
    /\ \A i \in 1..Len(text) : \E k \in 1..10 : DecimalDigits[k] = text[i]
    /\ DayOfMonth(text) \in 1..31

\* pd.to_datetime(column).dt.date
ToDate(text) == DayOfMonth(text) - 1

\* to_csv of a date: the day of the month with two digits
DateToCsv(day) ==
    <<DecimalDigits[((day + 1) \div 10) + 1], DecimalDigits[((day + 1) % 10) + 1]>>

\* The expiry dates the user may type: the first of the month, the second
\* without its leading zero, and a text that is no date.
ExpiryDateInputs == {<<"0", "1">>, <<"2">>, <<"0">>}

\* pd.read_csv(ingredients.csv)
ReadIngredients(file) ==
    [i \in 1..Len(file.rows) |->
        [id       |-> file.rows[i].id,
         name     |-> ReadCell(file.rows[i].name),
         quantity |-> file.rows[i].quantity,
         unit     |-> ReadCell(file.rows[i].unit),
         expiry_date  |-> file.rows[i].expiry_date,
         storage_type |-> ReadCell(file.rows[i].storage_type),
         date_added   |-> file.rows[i].date_added,
         cost         |-> file.rows[i].cost]]

\* save_ingredients(df)
WriteIngredients(df) ==
    File(<<>>,
         [i \in 1..Len(df) |->
             [id       |-> df[i].id,
              name     |-> WriteCell(df[i].name),
              quantity |-> df[i].quantity,
              unit     |-> WriteCell(df[i].unit),
              expiry_date  |-> df[i].expiry_date,
              storage_type |-> WriteCell(df[i].storage_type),
              date_added   |-> df[i].date_added,
              cost         |-> df[i].cost]])

\* load_ingredients(): the table, and the file (created when missing).
LoadIngredients(file) ==
    IF file.exists THEN [df |-> ReadIngredients(file), file |-> file]
    ELSE [df |-> <<>>, file |-> WriteIngredients(<<>>)]

IngredientIds(df) == {df[i].id : i \in 1..Len(df)}

NewIngredientId(df) ==
    IF Len(df) = 0 THEN 1
    ELSE (CHOOSE m \in IngredientIds(df) : \A x \in IngredientIds(df) : x <= m) + 1

\* add_ingredient(): the prompts for quantity, unit, expiry date, storage
\* type and cost repeat until the answer is valid, so the row is written
\* only for valid answers; the expiry date is stored as typed; date_added is
\* the day of the call.
AddIngredient(name_input, quantity, unit_input, date_input, storage_input, cost) ==
    LET loaded == LoadIngredients(ingredients_csv)
        name == Title(Strip(name_input))
        unit == LowerStr(Strip(unit_input))
        storage_type == LowerStr(Strip(storage_input))
        new_ingredient == [id |-> NewIngredientId(loaded.df), name |-> name,
                           quantity |-> quantity, unit |-> unit,
                           expiry_date |-> date_input,
                           storage_type |-> storage_type,
                           date_added |-> today, cost |-> cost]
    IN  /\ AtMenu
        /\ quantity > 0
        /\ unit \in valid_units
        /\ StrptimeAccepts(date_input)
        /\ storage_type \in valid_storage
        /\ cost >= 0
        /\ new_ingredient.id <= MaxIngredientId
        /\ ingredients_csv' = WriteIngredients(Append(loaded.df, new_ingredient))
        /\ last' = NoResult
        /\ UNCHANGED <<recipes_csv, ml_dataset_csv, expiry_state>>

UpdateIngredient(ingredient_id, new_quantity) ==
    LET loaded == LoadIngredients(ingredients_csv)
        updated == [i \in 1..Len(loaded.df) |->
                       IF loaded.df[i].id = ingredient_id
                       THEN [loaded.df[i] EXCEPT !.quantity = new_quantity]
                       ELSE loaded.df[i]]
    IN  /\ AtMenu
        /\ UNCHANGED <<recipes_csv, ml_dataset_csv, expiry_state>>
        /\ IF Len(loaded.df) = 0
           THEN /\ ingredients_csv' = loaded.file
                /\ last' = NoResult
           ELSE /\ ingredient_id \in IngredientIds(loaded.df)
                /\ new_quantity >= 0
                /\ ingredients_csv' = WriteIngredients(updated)
                /\ last' = NoResult

RemoveIngredient(ingredient_id, confirmed) ==
    LET loaded == LoadIngredients(ingredients_csv)
        Other(row) == row.id # ingredient_id
    IN  /\ AtMenu
        /\ UNCHANGED <<recipes_csv, ml_dataset_csv, expiry_state>>
        /\ IF Len(loaded.df) = 0
           THEN /\ ingredients_csv' = loaded.file
                /\ last' = NoResult
           ELSE /\ ingredient_id \in IngredientIds(loaded.df)
                /\ IF confirmed
                   THEN /\ ingredients_csv' = WriteIngredients(SelectSeq(loaded.df, Other))
                        /\ last' = NoResult
                   ELSE /\ ingredients_csv' = loaded.file
                        /\ last' = NoResult

(***************************************************************************)
(* Feasibility: get_all_possible_recipes, check_recipe_feasibility         *)
(***************************************************************************)

\* load_available_ingredients that keeps every row, in stock or not.
LoadAvailableIngredientsAll(file) ==
    IF ~file.exists THEN <<>>
    ELSE [i \in 1..Len(ReadIngredients(file)) |-> ReadIngredients(file)[i].name]

\* load_available_ingredients(): names of the rows with quantity > 0, or []
\* when ingredients.csv is missing.
LoadAvailableIngredients(file) ==
    IF ~file.exists THEN <<>>
    ELSE LET df == ReadIngredients(file)
             InStock(row) == row.quantity > 0
             ingredients_with_stock == SelectSeq(df, InStock)
         IN  [i \in 1..Len(ingredients_with_stock) |-> ingredients_with_stock[i].name]

\* CanMake with any() in place of all().
CanMakeAny(required_ingredients, available_ingredients) ==
    \E j \in 1..Len(required_ingredients) :
        PyIn(required_ingredients[j], available_ingredients)

\* all(ingredient in available_ingredients for ingredient in required_ingredients)
CanMake(required_ingredients, available_ingredients) ==
    \A j \in 1..Len(required_ingredients) :
        PyIn(required_ingredients[j], available_ingredients)

\* possible_recipes of get_all_possible_recipes
PossibleRecipes(recipes_df, available_ingredients) ==
    LET Makeable(row) ==
            CanMake(CleanIngredients(row.ingredients), available_ingredients)
        rows == SelectSeq(recipes_df, Makeable)
    IN  [i \in 1..Len(rows) |->
            [recipe_id |-> rows[i].recipe_id, recipe |-> rows[i].recipe_name,
             ingredients |-> rows[i].ingredients]]

\* GetAllPossibleRecipes that uses up the stock it has counted.
GetAllPossibleRecipesConsuming ==
    LET df == ReadIngredients(ingredients_csv)
    IN  /\ AtMenu
        /\ last' = [NoResult EXCEPT !.op = "get_all_possible_recipes"]
        /\ ingredients_csv' =
               IF ~ingredients_csv.exists THEN ingredients_csv
               ELSE WriteIngredients([i \in 1..Len(df) |->
                                         [df[i] EXCEPT !.quantity = 0]])
        /\ UNCHANGED <<recipes_csv, ml_dataset_csv, expiry_state>>

GetAllPossibleRecipes ==
    LET available_ingredients == LoadAvailableIngredients(ingredients_csv)
        possible_recipes ==
            PossibleRecipes(ReadRecipes(recipes_csv), available_ingredients)
        result(outcome, listed) ==
            [NoResult EXCEPT !.op = "get_all_possible_recipes",
                             !.outcome = outcome,
                             !.available = available_ingredients,
                             !.listed = listed]
    IN  /\ last' = IF available_ingredients = <<>> THEN result("no_stock", <<>>)
                   ELSE IF ~recipes_csv.exists
                   THEN result("recipes_not_found", <<>>)
                   ELSE IF possible_recipes # <<>>
                   THEN result("listed", possible_recipes)
                   ELSE result("none_possible", <<>>)
        /\ AtMenu
        /\ UNCHANGED <<recipes_csv, ml_dataset_csv, ingredients_csv, expiry_state>>

\* MissingIngredients that stops at the first missing ingredient.
MissingIngredientsFirst(required_ingredients, available_ingredients) ==
    LET Missing(ingredient) == ~PyIn(ingredient, available_ingredients)
        all_missing == SelectSeq(required_ingredients, Missing)
    IN  IF all_missing = <<>> THEN <<>> ELSE <<all_missing[1]>>

\* missing_ingredients of check_recipe_feasibility
MissingIngredients(required_ingredients, available_ingredients) ==
    LET Missing(ingredient) == ~PyIn(ingredient, available_ingredients)
    IN  SelectSeq(required_ingredients, Missing)

\* CheckRecipeFeasibility that is content with one available ingredient.
CheckRecipeFeasibilityAny(recipes, recipe_name, available_ingredients) ==
    IF ~recipes.exists THEN [printed |-> "recipes_not_found", missing |-> <<>>]
    ELSE LET Named(row) == PyEq(row.recipe_name, recipe_name)
             recipe_row == SelectSeq(ReadRecipes(recipes), Named)
             required_ingredients == CleanIngredients(recipe_row[1].ingredients)
             Missing(ingredient) == ~PyIn(ingredient, available_ingredients)
             missing_ingredients == SelectSeq(required_ingredients, Missing)
         IN  IF Len(recipe_row) = 0 THEN [printed |-> "nothing", missing |-> <<>>]
             ELSE IF Len(missing_ingredients) < Len(required_ingredients)
             THEN [printed |-> "have_all", missing |-> <<>>]
             ELSE [printed |-> "missing", missing |-> missing_ingredients]

\* check_recipe_feasibility(recipe_name, available_ingredients): what it
\* prints, and the missing ingredients it names.
CheckRecipeFeasibility(recipes, recipe_name, available_ingredients) ==
    IF ~recipes.exists THEN [printed |-> "recipes_not_found", missing |-> <<>>]
    ELSE LET Named(row) == PyEq(row.recipe_name, recipe_name)
             recipe_row == SelectSeq(ReadRecipes(recipes), Named)
             missing_ingredients ==
                 MissingIngredients(CleanIngredients(recipe_row[1].ingredients),
                                    available_ingredients)
         IN  IF Len(recipe_row) = 0 THEN [printed |-> "nothing", missing |-> <<>>]
             ELSE IF missing_ingredients = <<>>
             THEN [printed |-> "have_all", missing |-> <<>>]
             ELSE [printed |-> "missing", missing |-> missing_ingredients]

(***************************************************************************)
(* load_ml_dataset, train_recipe_model, suggest_recipes                    *)
(***************************************************************************)

\* load_ml_dataset(): the dataset file afterwards and (X, y), or the
\* exception it ends with.  A missing file is generated and the load is
\* repeated; when generate_ml_dataset could not create it (no recipes.csv)
\* the load calls itself until Python's recursion limit (RecursionError).
\* read_csv of a file with an empty header raises EmptyDataError, which
\* load_ml_dataset does not catch.
ReadDataset(file) ==
    LET NotLabel(col) == col # RecipeNameCol
    IN  [file    |-> file,
         status  |-> IF ~file.exists THEN "RecursionError"
                     ELSE IF file.cols = <<>> THEN "EmptyDataError"
                     ELSE "ok",
         columns |-> SelectSeq(ReadHeader(file.cols), NotLabel),
         X       |-> [i \in 1..Len(file.rows) |-> file.rows[i].bits],
         y       |-> [i \in 1..Len(file.rows) |-> ReadCell(file.rows[i].recipe_name)]]

LoadMlDataset(recipes, ml) ==
    IF ml.exists THEN ReadDataset(ml)
    ELSE CHOOSE data \in {ReadDataset(file) :
                              file \in {GenerateMlDataset(recipes, ml)}} : TRUE

\* train_recipe_model(): (model, feature_names), (None, None), or the
\* exception that leaves it: load_ml_dataset's, or the ValueError
\* DecisionTreeClassifier.fit raises for a label that is NaN.
FitRecipeModel(data) ==
    [file |-> data.file, feature_names |-> data.columns, X |-> data.X,
     y |-> data.y,
     status |-> IF data.status # "ok" THEN data.status
                ELSE IF Len(data.X) = 0 THEN "none"
                ELSE IF \E i \in 1..Len(data.y) : data.y[i] = NaN
                THEN "ValueError"
                ELSE "ok",
     classes |-> Range(data.y)]

TrainRecipeModel(recipes, ml) ==
    CHOOSE trained \in {FitRecipeModel(data) :
                            data \in {LoadMlDataset(recipes, ml)}} : TRUE

\* InputVector with the membership test inverted.
InputVectorInverted(feature_names, available_ingredients) ==
    [i \in 1..Len(feature_names) |->
        [feature |-> feature_names[i],
         value   |-> IF PyIn(feature_names[i], available_ingredients)
                     THEN 0 ELSE 1]]

\* InputVector with one entry per available ingredient instead of one per
\* training feature column.
InputVectorPerAvailable(feature_names, available_ingredients) ==
    [i \in 1..Len(available_ingredients) |->
        [feature |-> available_ingredients[i], value |-> 1]]

\* input_data of suggest_recipes: one entry per training feature column.
InputVector(feature_names, available_ingredients) ==
    [i \in 1..Len(feature_names) |->
        [feature |-> feature_names[i],
         value   |-> IF PyIn(feature_names[i], available_ingredients)
                     THEN 1 ELSE 0]]

\* model.predict(input_df) accepts input_df only with the columns the model
\* was fitted on, in the fitted order; otherwise it raises ValueError.
PredictAccepts(feature_names, input_data) ==
    [i \in 1..Len(input_data) |-> input_data[i].feature] = feature_names

\* DecisionTreeClassifier() of train_recipe_model without random_state.
RecipeTreeParamsUnseeded == [max_depth |-> 10, min_samples_split |-> 2]

\* DecisionTreeClassifier(random_state=42, max_depth=10, min_samples_split=2)
recipe_tree_params ==
    [random_state |-> 42, max_depth |-> 10, min_samples_split |-> 2]

\* With random_state given, fit() seeds its random number generator with it
\* and a fit to the same data grows the same tree; without it every fit
\* draws a new seed.
Seeded(params) == "random_state" \in DOMAIN params

\* model.predict(input_df)[0]: the class the fitted tree returns is one of
\* the labels it was trained on; which one is left open, except that a
\* seeded fit decides as the fit of the call just before did (nothing ran
\* in between, so both read the same ml_dataset.csv).
RecipeDecisions(trained, input_data) ==
    IF /\ Seeded(recipe_tree_params)
       /\ last.op = "suggest_recipes"
       /\ last.outcome = "suggested"
       /\ last.features = trained.feature_names
       /\ last.labels = trained.y
       /\ last.vector = input_data
    THEN {last.suggested}
    ELSE trained.classes

\* suggest_recipes()
SuggestRecipes ==
    \E available_ingredients \in {LoadAvailableIngredients(ingredients_csv)} :
      LET base == [NoResult EXCEPT !.op = "suggest_recipes",
                                   !.available = available_ingredients]
      IN
      /\ AtMenu
      /\ UNCHANGED <<recipes_csv, ingredients_csv, expiry_state>>
      /\ IF available_ingredients = <<>>
         THEN /\ last' = [base EXCEPT !.outcome = "no_stock"]
              /\ UNCHANGED ml_dataset_csv
         ELSE \E trained \in {TrainRecipeModel(recipes_csv, ml_dataset_csv)} :
              \E input_data \in {InputVector(trained.feature_names,
                                             available_ingredients)} :
                LET fitted == [base EXCEPT !.features = trained.feature_names,
                                           !.labels = trained.y,
                                           !.nrows = Len(trained.X),
                                           !.vector = input_data]
                IN
                /\ ml_dataset_csv' = trained.file
                /\ IF trained.status = "none"
                   THEN last' = [base EXCEPT !.outcome = "could_not_train"]
                   ELSE IF trained.status # "ok"
                   THEN last' = [base EXCEPT !.outcome = trained.status]
                   ELSE IF ~PredictAccepts(trained.feature_names, input_data)
                   THEN last' = [fitted EXCEPT !.outcome = "prediction_error"]
                   ELSE \E suggested_recipe \in RecipeDecisions(trained, input_data) :
                        \E check \in {CheckRecipeFeasibility(recipes_csv,
                                          suggested_recipe, available_ingredients)} :
                            last' = [fitted EXCEPT
                                        !.outcome = "suggested",
                                        !.suggested = suggested_recipe,
                                        !.feasibility = check.printed,
                                        !.missing = check.missing]

(***************************************************************************)
(* Expiry prediction (modules/expiry_ml.py)                                *)
(***************************************************************************)

Vegetables == <<"V", "e", "g", "e", "t", "a", "b", "l", "e", "s">>
Dairy == <<"D", "a", "i", "r", "y">>
Grains == <<"G", "r", "a", "i", "n", "s">>
Fridge == <<"f", "r", "i", "d", "g", "e">>
Freezer == <<"f", "r", "e", "e", "z", "e", "r">>
Pantry == <<"p", "a", "n", "t", "r", "y">>

\* The labels the program names: the status column of expiry_dataset.csv.
Safe == "Safe"
ExpireSoon == "Expire Soon"
Expired == "Expired"

\* load_expiry_dataset: ingredient_mapping, storage_mapping and the columns
\* of X, in order.
TrainIngredientMapping == (Vegetables :> 1) @@ (Dairy :> 2) @@ (Grains :> 3)

TrainStorageMapping == (Fridge :> 1) @@ (Freezer :> 2) @@ (Pantry :> 3)

TrainColumns ==
    <<"ingredient_type_encoded", "days_since_purchase", "storage_type_encoded">>

\* predict_ingredient_expiry: the choices offered, the mappings and the keys
\* of input_data, in order.
ingredient_types == <<Vegetables, Dairy, Grains>>

storage_types == <<Fridge, Freezer, Pantry>>

PredictIngredientMapping == (Vegetables :> 1) @@ (Dairy :> 2) @@ (Grains :> 3)

\* storage_mapping with the codes of fridge and freezer exchanged.
PredictStorageMappingSwapped == (Fridge :> 2) @@ (Freezer :> 1) @@ (Pantry :> 3)

PredictStorageMapping == (Fridge :> 1) @@ (Freezer :> 2) @@ (Pantry :> 3)

PredictColumns ==
    <<"ingredient_type_encoded", "days_since_purchase", "storage_type_encoded">>

\* check_current_ingredients_expiry: name_to_type, the mappings and the keys
\* of input_data, in order.
name_to_type ==
    (<<"T", "o", "m", "a", "t", "o">> :> Vegetables) @@
    (<<"O", "n", "i", "o", "n">> :> Vegetables) @@
    (<<"G", "a", "r", "l", "i", "c">> :> Vegetables) @@
    (<<"L", "e", "m", "o", "n">> :> Vegetables) @@
    (<<"P", "o", "t", "a", "t", "o">> :> Vegetables) @@
    (<<"C", "a", "r", "r", "o", "t">> :> Vegetables) @@
    (<<"S", "p", "i", "n", "a", "c", "h">> :> Vegetables) @@
    (<<"C", "h", "e", "e", "s", "e">> :> Dairy) @@
    (<<"M", "i", "l", "k">> :> Dairy) @@
    (<<"B", "u", "t", "t", "e", "r">> :> Dairy) @@
    (<<"R", "i", "c", "e">> :> Grains) @@
    (<<"B", "r", "e", "a", "d">> :> Grains)

BatchIngredientMapping == (Vegetables :> 1) @@ (Dairy :> 2) @@ (Grains :> 3)

\* storage_mapping with an entry for a storage type that is not offered.
BatchStorageMappingShelf ==
    (Fridge :> 1) @@ (Freezer :> 2) @@ (Pantry :> 3) @@ (<<"s", "h", "e", "l", "f">> :> 3)

BatchStorageMapping == (Fridge :> 1) @@ (Freezer :> 2) @@ (Pantry :> 3)

BatchColumns ==
    <<"ingredient_type_encoded", "days_since_purchase", "storage_type_encoded">>

\* pd.read_csv(expiry_dataset.csv)
ReadExpiryDataset(file) ==
    [i \in 1..Len(file.rows) |->
        [ingredient_type     |-> ReadCell(file.rows[i].ingredient_type),
         days_since_purchase |-> file.rows[i].days_since_purchase,
         storage_type        |-> ReadCell(file.rows[i].storage_type),
         status              |-> file.rows[i].status]]

\* load_expiry_dataset(): (X, y), (None, None) when the file is missing, or
\* the KeyError of a mapping lookup, which only FileNotFoundError is caught
\* around.  A row of X holds the values of TrainColumns, in that order.
LoadExpiryDataset(file) ==
    LET expiry_df == ReadExpiryDataset(file)
        Known(i) ==
            /\ expiry_df[i].ingredient_type \in DOMAIN TrainIngredientMapping
            /\ expiry_df[i].storage_type \in DOMAIN TrainStorageMapping
    IN  IF ~file.exists
        THEN [status |-> "none", columns |-> <<>>, X |-> <<>>, y |-> <<>>]
        ELSE IF \E i \in 1..Len(expiry_df) : ~Known(i)
        THEN [status |-> "KeyError", columns |-> <<>>, X |-> <<>>, y |-> <<>>]
        ELSE [status  |-> "ok",
              columns |-> TrainColumns,
              X |-> [i \in 1..Len(expiry_df) |->
                        <<TrainIngredientMapping[expiry_df[i].ingredient_type],
                          expiry_df[i].days_since_purchase,
                          TrainStorageMapping[expiry_df[i].storage_type]>>],
              y |-> [i \in 1..Len(expiry_df) |-> expiry_df[i].status]]

\* train_expiry_model(): (model, feature_names), (None, None), or the
\* exception that leaves it: load_expiry_dataset's KeyError, or the
\* ValueError DecisionTreeClassifier.fit raises for a table with no row.
\* The fitted tree answers with one of the labels it was trained on.
TrainExpiryModel(file) ==
    LET data == LoadExpiryDataset(file)
    IN  [status |-> IF data.status # "ok" THEN data.status
                    ELSE IF Len(data.X) = 0 THEN "ValueError"
                    ELSE "ok",
         fitted_columns |-> data.columns,
         feature_names  |-> TrainColumns,
         classes        |-> Range(data.y)]

\* model.predict(input_df): the feature row the tree is asked about.
\* predict() refuses an input whose columns are not the fitted columns in
\* the fitted order.
FeatureRow(input_data) == [i \in 1..Len(input_data) |-> input_data[i].value]

ExpiryPredictAccepts(model, input_data) ==
    [i \in 1..Len(input_data) |-> input_data[i].feature] = model.fitted_columns

\* DecisionTreeClassifier(random_state=42, max_depth=5, min_samples_split=3)
expiry_tree_params ==
    [random_state |-> 42, max_depth |-> 5, min_samples_split |-> 3]

\* The decisions a fit to the same file gives.  Seeded, the ones already
\* made stay and a feature row not asked before gets any label of the
\* training file; unseeded, every row asked gets any label anew.
TreesFor(model, rows) ==
    IF Seeded(expiry_tree_params)
    THEN {expiry_tree @@ new :
              new \in [rows \ DOMAIN expiry_tree -> model.classes]}
    ELSE {new @@ expiry_tree : new \in [rows -> model.classes]}

\* What the user types at the prompts of predict_ingredient_expiry.
TypeInputs == {<<" ", "v", "e", "g", "e", "t", "a", "b", "l", "e", "s">>, <<"f", "r", "u", "i", "t">>}

DaysInputs == {<<"-", "1">>, <<"0">>, <<"1">>, <<"x">>}

ExpiryStorageInputs == {<<"F", "r", "i", "d", "g", "e", " ">>, <<"s", "h", "e", "l", "f">>}

DigitValue ==
    ("0" :> 0) @@ ("1" :> 1) @@ ("2" :> 2) @@ ("3" :> 3) @@ ("4" :> 4) @@
    ("5" :> 5) @@ ("6" :> 6) @@ ("7" :> 7) @@ ("8" :> 8) @@ ("9" :> 9)

RECURSIVE DigitsValue(_)
DigitsValue(ds) ==
    IF ds = <<>> THEN 0
    ELSE 10 * DigitsValue(SubSeq(ds, 1, Len(ds) - 1)) + DigitValue[ds[Len(ds)]]

\* int(text): blanks around, an optional sign, then digits; ValueError
\* otherwise.
ParseInt(text) ==
    LET t == Strip(text)
        signed == t # <<>> /\ Head(t) \in {"-", "+"}
        digits == IF signed THEN Tail(t) ELSE t
        ok == digits # <<>> /\ \A i \in 1..Len(digits) : digits[i] \in DOMAIN DigitValue
    IN  [ok    |-> ok,
         value |-> IF ~ok THEN 0
                   ELSE IF signed /\ Head(t) = "-" THEN 0 - DigitsValue(digits)
                   ELSE DigitsValue(digits)]

\* input_data of predict_ingredient_expiry
PredictInputVector(ingredient_type, days_since, storage_type) ==
    <<[feature |-> PredictColumns[1],
       value   |-> PredictIngredientMapping[ingredient_type]],
      [feature |-> PredictColumns[2], value |-> days_since],
      [feature |-> PredictColumns[3],
       value   |-> PredictStorageMapping[storage_type]]>>

\* predict_ingredient_expiry(), up to its first prompt: the model is trained
\* before anything is asked.
PredictIngredientExpiry ==
    LET result(outcome) == [NoResult EXCEPT !.op = "predict_ingredient_expiry",
                                            !.outcome = outcome]
    IN  /\ AtMenu
        /\ UNCHANGED <<recipes_csv, ml_dataset_csv, ingredients_csv,
                       expiry_dataset_csv, ledgers, today, expiry_tree>>
        /\ \E model \in {TrainExpiryModel(expiry_dataset_csv)} :
             IF model.status = "none"
             THEN last' = result("could_not_train") /\ UNCHANGED prompt
             ELSE IF model.status # "ok"
             THEN last' = result(model.status) /\ UNCHANGED prompt
             ELSE /\ last' = result("ask_ingredient_type")
                  /\ prompt' = [Menu EXCEPT !.at = "ingredient_type"]

\* The "Enter ingredient type" prompt, asked again until the answer is one
\* of ingredient_types.
EnterIngredientType(user_type) ==
    LET ingredient_type == Title(Strip(user_type))
        result(outcome) == [NoResult EXCEPT !.op = "predict_ingredient_expiry",
                                            !.outcome = outcome]
    IN  /\ prompt.at = "ingredient_type"
        /\ UNCHANGED <<recipes_csv, ml_dataset_csv, ingredients_csv,
                       expiry_dataset_csv, ledgers, today, expiry_tree>>
        /\ IF PyIn(ingredient_type, ingredient_types)
           THEN /\ prompt' = [prompt EXCEPT !.at = "days_since",
                                            !.ingredient_type = ingredient_type]
                /\ last' = result("ask_days_since")
           ELSE /\ last' = result("invalid_ingredient_type")
                /\ UNCHANGED prompt

\* The "Enter days since purchase" prompt, asked again until the answer is
\* a number that is not negative.
EnterDaysSince(user_days) ==
    LET days_since == ParseInt(user_days)
        result(outcome) == [NoResult EXCEPT !.op = "predict_ingredient_expiry",
                                            !.outcome = outcome]
    IN  /\ prompt.at = "days_since"
        /\ UNCHANGED <<recipes_csv, ml_dataset_csv, ingredients_csv,
                       expiry_dataset_csv, ledgers, today, expiry_tree>>
        /\ IF ~days_since.ok
           THEN last' = result("invalid_number") /\ UNCHANGED prompt
           ELSE IF days_since.value < 0
           THEN last' = result("negative_days") /\ UNCHANGED prompt
           ELSE /\ prompt' = [prompt EXCEPT !.at = "storage_type",
                                            !.days_since = days_since.value]
                /\ last' = result("ask_storage_type")

\* The "Enter storage type" prompt, asked again until the answer is one of
\* storage_types, and then the prediction.
EnterStorageType(user_storage) ==
    LET storage_type == LowerStr(Strip(user_storage))
        result(outcome) == [NoResult EXCEPT !.op = "predict_ingredient_expiry",
                                            !.outcome = outcome]
    IN  /\ prompt.at = "storage_type"
        /\ UNCHANGED <<recipes_csv, ml_dataset_csv, ingredients_csv,
                       expiry_dataset_csv, ledgers, today>>
        /\ IF ~PyIn(storage_type, storage_types)
           THEN /\ last' = result("invalid_storage_type")
                /\ UNCHANGED <<prompt, expiry_tree>>
           ELSE \E model \in {TrainExpiryModel(expiry_dataset_csv)} :
                \E input_data \in {PredictInputVector(prompt.ingredient_type,
                                       prompt.days_since, storage_type)} :
                  LET asked == [result("predicted") EXCEPT
                                   !.ingredient_type = prompt.ingredient_type,
                                   !.days_since = prompt.days_since,
                                   !.storage_type = storage_type,
                                   !.features = model.feature_names,
                                   !.vector = input_data]
                  IN  /\ prompt' = Menu
                      /\ IF ~ExpiryPredictAccepts(model, input_data)
                         THEN /\ last' = [asked EXCEPT !.outcome = "prediction_error"]
                              /\ UNCHANGED expiry_tree
                         ELSE \E tree \in TreesFor(model, {FeatureRow(input_data)}) :
                                /\ expiry_tree' = tree
                                /\ last' = [asked EXCEPT !.predicted_status =
                                               tree[FeatureRow(input_data)]]

\* days_since_purchase of check_current_ingredients_expiry: today minus
\* date_added, in days.
DaysSincePurchase(row) == today - row.date_added

\* name_to_type.get(ingredient_name, 'Vegetables')
IngredientTypeOf(ingredient_name) ==
    IF ingredient_name \in DOMAIN name_to_type
    THEN name_to_type[ingredient_name] ELSE Vegetables

\* input_data of check_current_ingredients_expiry, for one row.
BatchInputVector(ingredient_type, days_since, storage_type) ==
    <<[feature |-> BatchColumns[1],
       value   |-> BatchIngredientMapping[ingredient_type]],
      [feature |-> BatchColumns[2], value |-> days_since],
      [feature |-> BatchColumns[3],
       value   |-> BatchStorageMapping[storage_type]]>>

\* PredictionEntry that asks the tree about the first row of the inventory
\* instead of the row at hand.
PredictionEntryFirstRow(row, tree) ==
    LET ingredient_type == IngredientTypeOf(row.name)
        first == ReadIngredients(ingredients_csv)[1]
        input_data == BatchInputVector(IngredientTypeOf(first.name),
                          DaysSincePurchase(first), first.storage_type)
    IN  [name |-> row.name,
         type |-> ingredient_type,
         days_since_purchase |-> DaysSincePurchase(row),
         storage |-> row.storage_type,
         predicted_status |-> tree[FeatureRow(input_data)],
         quantity |-> row.quantity,
         unit |-> row.unit,
         input_data |-> input_data]

\* The entry the loop appends to predictions for one row, given the tree's
\* decisions.
PredictionEntry(row, tree) ==
    LET ingredient_type == IngredientTypeOf(row.name)
        input_data == BatchInputVector(ingredient_type,
                          DaysSincePurchase(row), row.storage_type)
    IN  [name |-> row.name,
         type |-> ingredient_type,
         days_since_purchase |-> DaysSincePurchase(row),
         storage |-> row.storage_type,
         predicted_status |-> tree[FeatureRow(input_data)],
         quantity |-> row.quantity,
         unit |-> row.unit,
         input_data |-> input_data]

\* The rows the loop gets through: it stops at the first row whose storage
\* type storage_mapping does not hold (KeyError).
RowsPredicted(ingredients_df) ==
    LET Unknown(i) == ingredients_df[i].storage_type \notin DOMAIN BatchStorageMapping
        failing == {i \in 1..Len(ingredients_df) : Unknown(i)}
    IN  IF failing = {} THEN Len(ingredients_df)
        ELSE (CHOOSE i \in failing : \A j \in failing : i <= j) - 1

\* ExpiryReport whose last group takes every entry that is not Safe.
ExpiryReportElse(predictions, failed) ==
    LET IsSafe(p) == p.predicted_status = Safe
        IsExpireSoon(p) == p.predicted_status = ExpireSoon
        IsExpired(p) == p.predicted_status # Safe
    IN  IF failed
        THEN [predictions |-> <<>>, total |-> 0, safe_items |-> <<>>,
              expire_soon_items |-> <<>>, expired_items |-> <<>>]
        ELSE [predictions |-> predictions,
              total |-> Len(predictions),
              safe_items |-> SelectSeq(predictions, IsSafe),
              expire_soon_items |-> SelectSeq(predictions, IsExpireSoon),
              expired_items |-> SelectSeq(predictions, IsExpired)]

\* ExpiryReport that prints the entries made before the exception.
ExpiryReportPartial(predictions, failed) ==
    LET IsSafe(p) == p.predicted_status = Safe
        IsExpireSoon(p) == p.predicted_status = ExpireSoon
        IsExpired(p) == p.predicted_status = Expired
    IN  [predictions |-> predictions,
         total |-> Len(predictions),
         safe_items |-> SelectSeq(predictions, IsSafe),
         expire_soon_items |-> SelectSeq(predictions, IsExpireSoon),
         expired_items |-> SelectSeq(predictions, IsExpired)]

\* What is printed from predictions: the total and the three groups when
\* the loop ended, nothing when an exception left the try block.
ExpiryReport(predictions, failed) ==
    LET IsSafe(p) == p.predicted_status = Safe
        IsExpireSoon(p) == p.predicted_status = ExpireSoon
        IsExpired(p) == p.predicted_status = Expired
    IN  IF failed
        THEN [predictions |-> <<>>, total |-> 0, safe_items |-> <<>>,
              expire_soon_items |-> <<>>, expired_items |-> <<>>]
        ELSE [predictions |-> predictions,
              total |-> Len(predictions),
              safe_items |-> SelectSeq(predictions, IsSafe),
              expire_soon_items |-> SelectSeq(predictions, IsExpireSoon),
              expired_items |-> SelectSeq(predictions, IsExpired)]

\* check_current_ingredients_expiry()
CheckCurrentIngredientsExpiry ==
    LET result(outcome) ==
            [NoResult EXCEPT !.op = "check_current_ingredients_expiry",
                             !.outcome = outcome]
        ingredients_df == ReadIngredients(ingredients_csv)
    IN  /\ AtMenu
        /\ UNCHANGED <<recipes_csv, ml_dataset_csv, ingredients_csv,
                       expiry_dataset_csv, ledgers, today, prompt>>
        /\ \E model \in {TrainExpiryModel(expiry_dataset_csv)} :
           \E done \in {RowsPredicted(ingredients_df)} :
             IF model.status = "none"
             THEN last' = result("could_not_train") /\ UNCHANGED expiry_tree
             ELSE IF model.status # "ok"
             THEN last' = result(model.status) /\ UNCHANGED expiry_tree
             ELSE IF ~ingredients_csv.exists
             THEN last' = result("ingredients_not_found") /\ UNCHANGED expiry_tree
             ELSE IF Len(ingredients_df) = 0
             THEN last' = result("no_stock") /\ UNCHANGED expiry_tree
             ELSE \E tree \in TreesFor(model,
                       {FeatureRow(BatchInputVector(
                            IngredientTypeOf(ingredients_df[i].name),
                            DaysSincePurchase(ingredients_df[i]),
                            ingredients_df[i].storage_type)) : i \in 1..done}) :
                  \E report \in {ExpiryReport(
                       [i \in 1..done |-> PredictionEntry(ingredients_df[i], tree)],
                       done < Len(ingredients_df))} :
                    /\ expiry_tree' = tree
                    /\ last' = [result(IF done < Len(ingredients_df)
                                       THEN "error_in_analysis" ELSE "analysed")
                                EXCEPT !.features = model.feature_names,
                                       !.predictions = report.predictions,
                                       !.total = report.total,
                                       !.safe_items = report.safe_items,
                                       !.expire_soon_items = report.expire_soon_items,
                                       !.expired_items = report.expired_items]

\* The dates the system clock shows: datetime.today() is read anew by every
\* operation, and nothing keeps it from being earlier than the last time.
ClockDays == {0, 1}

ClockChange(day) ==
    /\ AtMenu
    /\ day # today
    /\ today' = day
    /\ last' = NoResult
    /\ UNCHANGED <<recipes_csv, ml_dataset_csv, ingredients_csv,
                   expiry_dataset_csv, ledgers, expiry_tree, prompt>>

(***************************************************************************)
(* The program                                                             *)
(***************************************************************************)

\* The data directory at start: recipes.csv missing or with no recipe yet,
\* ml_dataset.csv missing or as generate_ml_dataset writes it for that
\* catalog, ingredients.csv missing or empty.
Init ==
    /\ recipes_csv \in {NoFile, WriteRecipes(<<>>)}
    /\ ml_dataset_csv \in {NoFile, GenerateMlDataset(recipes_csv, NoFile)}
    /\ ingredients_csv \in {NoFile, WriteIngredients(<<>>)}
    /\ last = NoResult
    /\ expiry_dataset_csv = NoFile
    /\ today = 0
    /\ expiry_tree = <<>>
    /\ prompt = Menu
    /\ waste_csv = NoFile
    /\ expenses_csv = NoFile

Next ==
    \/ \E name_input \in NameInputs, ingredients_input \in IngredientsInputs :
           AddNewRecipe(name_input, ingredients_input)
    \/ RegenerateDataset
    \/ SuggestRecipes
    \/ GetAllPossibleRecipes
    \/ \E name_input \in IngredientNameInputs, quantity \in QuantityInputs,
          unit_input \in UnitInputs, storage_input \in StorageInputs :
           AddIngredient(name_input, quantity, unit_input, <<"0", "2">>,
                         storage_input, 0)
    \/ \E ingredient_id \in 1..MaxIngredientId, new_quantity \in QuantityInputs :
           UpdateIngredient(ingredient_id, new_quantity)

Spec == Init /\ [][Next]_vars

(***************************************************************************)
(* The program, with recipes typed in lower case                           *)
(***************************************************************************)

\* The ingredient texts typed for a recipe here: one name each, one of
\* them in lower case.
TypedIngredients == {<<"b">>, <<" ", "A">>}

MatchNext ==
    \/ \E name_input \in {<<"a">>, <<"B">>}, ingredients_input \in TypedIngredients :
           AddNewRecipe(name_input, ingredients_input)
    \/ GetAllPossibleRecipes
    \/ \E name_input \in IngredientNameInputs, quantity \in QuantityInputs,
          unit_input \in UnitInputs, storage_input \in StorageInputs :
           AddIngredient(name_input, quantity, unit_input, <<"0", "2">>,
                         storage_input, 0)
    \/ \E ingredient_id \in 1..MaxIngredientId, new_quantity \in QuantityInputs :
           UpdateIngredient(ingredient_id, new_quantity)

MatchSpec == Init /\ [][MatchNext]_vars

(***************************************************************************)
(* The program, seen from the expiry prediction menu                       *)
(***************************************************************************)

\* expiry_dataset.csv as found: missing, three rows of known types, or a
\* row whose ingredient type ingredient_mapping does not hold.
ExpiryDatasets ==
    {NoFile,
     File(<<>>, <<[ingredient_type |-> Vegetables, days_since_purchase |-> 0,
                   storage_type |-> Fridge, status |-> Safe],
                  [ingredient_type |-> Dairy, days_since_purchase |-> 1,
                   storage_type |-> Freezer, status |-> ExpireSoon],
                  [ingredient_type |-> Grains, days_since_purchase |-> 2,
                   storage_type |-> Pantry, status |-> Expired]>>),
     File(<<>>, <<[ingredient_type |-> <<"F", "r", "u", "i", "t">>, days_since_purchase |-> 0,
                   storage_type |-> Fridge, status |-> Safe]>>)}

\* ingredients.csv as found: missing, or a file from elsewhere whose second
\* row has a storage type this program does not write.
FoundInventory ==
    File(<<>>, <<[id |-> 1, name |-> <<"T", "o", "m", "a", "t", "o">>, quantity |-> 1,
                  unit |-> <<"k", "g">>, expiry_date |-> <<"0", "2">>,
                  storage_type |-> Fridge, date_added |-> 0, cost |-> 0],
                 [id |-> 2, name |-> <<"A">>, quantity |-> 1,
                  unit |-> <<"k", "g">>, expiry_date |-> <<"0", "2">>,
                  storage_type |-> <<"s", "h", "e", "l", "f">>,
                  date_added |-> 0, cost |-> 0]>>)

ExpiryInit ==
    /\ recipes_csv = NoFile
    /\ ml_dataset_csv = NoFile
    /\ ingredients_csv \in {NoFile, FoundInventory}
    /\ last = NoResult
    /\ expiry_dataset_csv \in ExpiryDatasets
    /\ today \in ClockDays
    /\ expiry_tree = <<>>
    /\ prompt = Menu
    /\ waste_csv = NoFile
    /\ expenses_csv = NoFile

ExpiryNext ==
    \/ PredictIngredientExpiry
    \/ \E user_type \in TypeInputs : EnterIngredientType(user_type)
    \/ \E user_days \in DaysInputs : EnterDaysSince(user_days)
    \/ \E user_storage \in ExpiryStorageInputs : EnterStorageType(user_storage)
    \/ CheckCurrentIngredientsExpiry
    \/ \E day \in ClockDays : ClockChange(day)
    \/ \E unit_input \in UnitInputs, storage_input \in StorageInputs :
           AddIngredient(<<"a">>, 1, unit_input, <<"0", "2">>,
                         storage_input, 0)
    \/ \E ingredient_id \in 1..MaxIngredientId, confirmed \in BOOLEAN :
           RemoveIngredient(ingredient_id, confirmed)
    \/ SuggestRecipes

ExpirySpec == ExpiryInit /\ [][ExpiryNext]_vars


(***************************************************************************)
(* Reference definitions for the properties                                *)
(***************************************************************************)

\* The pieces of a text between commas, as <<first, last>> index pairs.
Pieces(s) ==
    {p \in (1..(Len(s) + 1)) \X (0..Len(s)) :
        /\ p[1] <= p[2] + 1
        /\ p[1] = 1 \/ s[p[1] - 1] = ","
        /\ p[2] = Len(s) \/ s[p[2] + 1] = ","
        /\ \A k \in p[1]..p[2] : s[k] # ","}

\* A text without the blanks around it.
Trimmed(s) ==
    LET inked == {i \in 1..Len(s) : s[i] # " "}
    IN  IF inked = {} THEN <<>>
        ELSE SubSeq(s, CHOOSE i \in inked : \A j \in inked : i <= j,
                       CHOOSE i \in inked : \A j \in inked : j <= i)

\* The comma-separated, whitespace-trimmed ingredient tokens of a text.
TokenSet(s) == {Trimmed(SubSeq(s, p[1], p[2])) : p \in Pieces(s)}

\* The catalog as stored, and the tokens of all its recipes.
Catalog == recipes_csv.rows

CatalogTokens == UNION {TokenSet(Catalog[i].ingredients) : i \in 1..Len(Catalog)}

\* The available names the last operation worked with.
Available == Range(last.available)

\* The catalog rows carrying the suggested name.
SuggestedRows == {i \in 1..Len(Catalog) : Catalog[i].recipe_name = last.suggested}

Suggested == last.op = "suggest_recipes" /\ last.outcome = "suggested"

\* The feature columns of the stored dataset, as written.
DatasetVocabulary == Tail(ml_dataset_csv.cols)

(***************************************************************************)
(* Properties                                                              *)
(***************************************************************************)

\* C1: get_all_possible_recipes lists a recipe exactly when every
\* comma-separated, trimmed ingredient token of it is an available name.
C1_FeasibilityCorrect ==
    last.op = "get_all_possible_recipes" =>
        \A i \in 1..Len(Catalog) :
            (\E k \in 1..Len(last.listed) :
                 /\ last.listed[k].recipe_id = Catalog[i].recipe_id
                 /\ last.listed[k].ingredients = Catalog[i].ingredients)
            <=> TokenSet(Catalog[i].ingredients) \subseteq Available

\* A two-recipe catalog of which exactly one recipe is listed.
C1_Witness ==
    /\ last.op = "get_all_possible_recipes"
    /\ Len(Catalog) = 2
    /\ Len(last.listed) = 1
    /\ Cardinality(TokenSet(last.listed[1].ingredients)) = 2

\* C2: the missing ingredients check_recipe_feasibility names are exactly
\* the recipe's trimmed tokens that are not available, and there are none
\* exactly when the recipe is fully makeable.
C2_MissingExact ==
    Suggested /\ last.feasibility \in {"have_all", "missing"} =>
        \A i \in SuggestedRows :
            /\ Range(last.missing) = TokenSet(Catalog[i].ingredients) \ Available
            /\ last.missing = <<>> <=>
                   TokenSet(Catalog[i].ingredients) \subseteq Available

\* A suggestion two of whose ingredients are missing.
C2_Witness ==
    /\ Suggested
    /\ Cardinality(Range(last.missing)) = 2
    /\ Available # {}

\* C3: the vocabulary generate_ml_dataset builds is the set of distinct
\* trimmed ingredient tokens of the catalog, each once, in lexicographic
\* order.
C3_VocabularySorted ==
    ml_dataset_csv.exists /\ ml_dataset_csv.rows # <<>> =>
        /\ Range(DatasetVocabulary) = CatalogTokens
        /\ \A i, j \in 1..Len(DatasetVocabulary) :
               i < j => StrLess(DatasetVocabulary[i], DatasetVocabulary[j])

\* A vocabulary of four tokens drawn from two recipes.
C3_Witness ==
    /\ ml_dataset_csv.exists
    /\ Len(Catalog) = 2
    /\ Len(DatasetVocabulary) = 4

\* C4: the dataset has one row per recipe, labelled with the recipe's name;
\* every row has one 0/1 entry per vocabulary ingredient, 1 exactly when the
\* ingredient is one of the recipe's trimmed tokens.
C4_BinaryRows ==
    ml_dataset_csv.exists =>
        /\ recipes_csv.exists
        /\ Len(ml_dataset_csv.rows) = Len(Catalog)
        /\ \A i \in 1..Len(Catalog) :
               LET row == ml_dataset_csv.rows[i]
                   tokens == TokenSet(Catalog[i].ingredients)
               IN  /\ row.recipe_name = Catalog[i].recipe_name
                   /\ Len(row.bits) = Len(DatasetVocabulary)
                   /\ \A k \in 1..Len(row.bits) :
                          /\ row.bits[k] \in {0, 1}
                          /\ row.bits[k] = 1 <=> DatasetVocabulary[k] \in tokens

\* Two rows over a shared vocabulary, each with a 0 and a 1.
C4_Witness ==
    /\ ml_dataset_csv.exists
    /\ Len(ml_dataset_csv.rows) = 2
    /\ \A i \in 1..2 : {0, 1} \subseteq Range(ml_dataset_csv.rows[i].bits)

\* C5: the availability vector of suggest_recipes has, for each training
\* feature column, 1 exactly when that name is available, and no entry for
\* an available ingredient that is not a training column.
C5_AvailabilityVector ==
    last.op = "suggest_recipes" /\ last.outcome \in {"suggested", "prediction_error"} =>
        /\ Len(last.vector) = Len(last.features)
        /\ \A i \in 1..Len(last.vector) :
               /\ last.vector[i].feature = last.features[i]
               /\ last.vector[i].value \in {0, 1}
               /\ last.vector[i].value = 1 <=> last.features[i] \in Available
        /\ \A a \in Available \ Range(last.features) :
               \A i \in 1..Len(last.vector) : last.vector[i].feature # a

\* A vector with a 1 and a 0.
C5_Witness ==
    /\ Suggested
    /\ \E i, j \in 1..Len(last.vector) :
           last.vector[i].value = 1 /\ last.vector[j].value = 0

\* C6: every vector handed to the trained model has one entry per feature
\* column of the dataset the model was trained on, in that order, and a
\* suggestion is produced only from such a vector.
C6_WidthInvariant ==
    last.op = "suggest_recipes" /\ last.outcome \in {"suggested", "prediction_error"} =>
        /\ Len(last.vector) = Len(ml_dataset_csv.cols) - 1
        /\ \A i \in 1..Len(last.vector) :
               last.vector[i].feature = ReadHeader(ml_dataset_csv.cols)[i + 1]
        /\ last.outcome = "suggested"

\* A suggestion from a vector of width four.
C6_Witness == Suggested /\ Len(last.vector) = 4 /\ Len(last.labels) = 2

\* C7: the dataset the classifier is trained on has one row per recipe of
\* the current catalog and the catalog's vocabulary as its feature columns.
C7_TrainedOnCurrentCatalog ==
    last.op = "suggest_recipes" /\ last.outcome \in {"suggested", "prediction_error"} =>
        /\ last.nrows = Len(Catalog)
        /\ last.features = SortedList(CatalogTokens)

\* C8: with ingredients in stock and a catalog of zero recipes,
\* suggest_recipes reports that it could not train.
C8_ZeroRecipesReported ==
    /\ last.op = "suggest_recipes"
    /\ last.available # <<>>
    /\ recipes_csv.exists
    /\ Catalog = <<>>
    => last.outcome = "could_not_train"

\* C9: after a suggestion the feasibility check has run; it says the user
\* has all ingredients only when every required ingredient is available,
\* and names missing ingredients otherwise.
C9_ReadyOnlyWhenFeasible ==
    Suggested =>
        /\ SuggestedRows # {}
        /\ last.feasibility \in {"have_all", "missing"}
        /\ \A i \in SuggestedRows :
               /\ last.feasibility = "have_all" <=>
                      TokenSet(Catalog[i].ingredients) \subseteq Available
               /\ last.feasibility = "missing" =>
                      /\ last.missing # <<>>
                      /\ Range(last.missing) \subseteq TokenSet(Catalog[i].ingredients)
                      /\ Range(last.missing) \cap Available = {}

\* Of two recipes, the one suggested has an ingredient missing while an
\* ingredient of it is in stock.
C9_Witness ==
    /\ Suggested
    /\ Len(Catalog) = 2
    /\ last.feasibility = "missing"
    /\ \E i \in SuggestedRows : TokenSet(Catalog[i].ingredients) \cap Available # {}

\* C10: no two recipes of the catalog share a name.
C10_NamesUnique ==
    \A i, j \in 1..Len(Catalog) :
        i # j => Catalog[i].recipe_name # Catalog[j].recipe_name

\* C11: every stored recipe has at least one ingredient and none of its
\* comma-separated, trimmed ingredient names is empty.
C11_IngredientsNonEmpty ==
    \A i \in 1..Len(Catalog) :
        /\ TokenSet(Catalog[i].ingredients) # {}
        /\ <<>> \notin TokenSet(Catalog[i].ingredients)

\* C12: a recipe is listed as makeable whenever every ingredient typed for
\* it, put in the form inventory names are stored in (trimmed, title case),
\* is an available name.
C12_NormalizedMatch ==
    (last.op = "get_all_possible_recipes"
        /\ last.outcome \in {"listed", "none_possible"}) =>
        \A i \in 1..Len(Catalog) :
            {Title(t) : t \in TokenSet(Catalog[i].ingredients)} \subseteq Available
            => \E k \in 1..Len(last.listed) :
                   last.listed[k].recipe_id = Catalog[i].recipe_id

(***************************************************************************)
(* Properties of expiry prediction                                         *)
(***************************************************************************)

\* The inventory as the program reads it now.
Inventory == ReadIngredients(ingredients_csv)

SinglePredicted ==
    last.op = "predict_ingredient_expiry" /\ last.outcome = "predicted"

BatchRan == last.op = "check_current_ingredients_expiry"

BatchAnalysed == BatchRan /\ last.outcome = "analysed"

KnownCategories == {Vegetables, Dairy, Grains}

KnownStorages == {Fridge, Freezer, Pantry}

\* The feature row (category code, days since purchase, storage code) of
\* an inventory row, by the training encoding.
OwnFeatures(row) ==
    <<TrainIngredientMapping[IngredientTypeOf(row.name)],
      today - row.date_added,
      TrainStorageMapping[row.storage_type]>>

\* C13: a label is only given to an item with a category of its own among
\* Vegetables, Dairy, Grains: in the single path the typed category, in the
\* batch path the category name_to_type holds for the item's name.
C13_NoSilentDefault ==
    /\ SinglePredicted => last.ingredient_type \in KnownCategories
    /\ BatchRan =>
           \A k \in 1..Len(last.predictions) :
               /\ last.predictions[k].name \in DOMAIN name_to_type
               /\ name_to_type[last.predictions[k].name] \in KnownCategories

\* C14: a storage type outside fridge, freezer, pantry never reaches the
\* classifier: the single path asks again and gives no label, the batch
\* path ends in an error with no label for any entry of that kind.
C14_UnknownStorageRejected ==
    /\ SinglePredicted => last.storage_type \in KnownStorages
    /\ (last.op = "predict_ingredient_expiry"
           /\ last.outcome = "invalid_storage_type") =>
           /\ prompt.at = "storage_type"
           /\ last.predicted_status = "none"
           /\ last.vector = <<>>
    /\ BatchRan =>
           /\ \A k \in 1..Len(last.predictions) :
                  last.predictions[k].storage \in KnownStorages
           /\ (last.outcome \in {"analysed", "error_in_analysis"}
                  /\ \E i \in 1..Len(Inventory) :
                         Inventory[i].storage_type \notin KnownStorages)
              => last.outcome = "error_in_analysis"

C14_Witness ==
    /\ BatchRan
    /\ last.outcome = "error_in_analysis"
    /\ \E i \in 1..Len(Inventory) : Inventory[i].storage_type \notin KnownStorages

\* C15: the days-since-purchase feature given to the classifier is never
\* negative, in the single path and in the batch path.
C15_DaysNeverNegative ==
    /\ SinglePredicted => last.days_since >= 0 /\ last.vector[2].value >= 0
    /\ BatchRan =>
           \A k \in 1..Len(last.predictions) :
               /\ last.predictions[k].days_since_purchase >= 0
               /\ last.predictions[k].input_data[2].value >= 0

\* C16: the single and the batch path encode categories and storage types
\* with the training mappings and pass the features in the training order.
C16_SameEncoding ==
    /\ PredictIngredientMapping = TrainIngredientMapping
    /\ BatchIngredientMapping = TrainIngredientMapping
    /\ PredictStorageMapping = TrainStorageMapping
    /\ BatchStorageMapping = TrainStorageMapping
    /\ PredictColumns = TrainColumns
    /\ BatchColumns = TrainColumns
    /\ SinglePredicted =>
           /\ [i \in 1..Len(last.vector) |-> last.vector[i].feature] = TrainColumns
           /\ FeatureRow(last.vector) =
                  <<TrainIngredientMapping[last.ingredient_type],
                    last.days_since,
                    TrainStorageMapping[last.storage_type]>>
    /\ BatchRan =>
           \A k \in 1..Len(last.predictions) :
               LET p == last.predictions[k]
               IN  /\ [i \in 1..Len(p.input_data) |-> p.input_data[i].feature]
                          = TrainColumns
                   /\ FeatureRow(p.input_data) =
                          <<TrainIngredientMapping[p.type],
                            p.days_since_purchase,
                            TrainStorageMapping[p.storage]>>

C16_Witness ==
    /\ SinglePredicted
    /\ last.storage_type = Fridge
    /\ last.days_since = 1

\* C17: the label the batch path gives the only item of an inventory is the
\* label the single path gives for that item's category, days since
\* purchase and storage type: the single path takes these three answers and
\* predicts the same status.
C17_BatchSingleEquivalent ==
    (BatchAnalysed /\ Len(last.predictions) = 1) =>
        LET p == last.predictions[1]
        IN  /\ p.type \in KnownCategories
            /\ p.days_since_purchase >= 0
            /\ p.storage \in KnownStorages
            /\ p.predicted_status =
                   expiry_tree[FeatureRow(PredictInputVector(
                       p.type, p.days_since_purchase, p.storage))]

\* C18: the three groups partition the analysed entries by label: each
\* group holds exactly the entries of its label, every label is one of the
\* three, and the group sizes add up to the reported total.
C18_BucketsPartition ==
    BatchAnalysed =>
        LET Count(label) ==
                Cardinality({k \in 1..Len(last.predictions) :
                                last.predictions[k].predicted_status = label})
            Only(items, label) ==
                \A k \in 1..Len(items) : items[k].predicted_status = label
        IN  /\ Only(last.safe_items, Safe)
            /\ Only(last.expire_soon_items, ExpireSoon)
            /\ Only(last.expired_items, Expired)
            /\ Len(last.safe_items) = Count(Safe)
            /\ Len(last.expire_soon_items) = Count(ExpireSoon)
            /\ Len(last.expired_items) = Count(Expired)
            /\ last.total = Len(Inventory)
            /\ Len(last.safe_items) + Len(last.expire_soon_items)
                   + Len(last.expired_items) = last.total

C18_Witness ==
    /\ BatchAnalysed
    /\ last.total = 2
    /\ Len(last.expire_soon_items) = 1
    /\ Len(last.expired_items) = 1

\* C19: each entry of the batch result is made from its own inventory row:
\* it carries that row's name, quantity and unit, and its label is the
\* tree's decision for that row's own features.
C19_PerItem ==
    BatchAnalysed =>
        /\ Len(last.predictions) = Len(Inventory)
        /\ \A k \in 1..Len(last.predictions) :
               /\ last.predictions[k].name = Inventory[k].name
               /\ last.predictions[k].quantity = Inventory[k].quantity
               /\ last.predictions[k].unit = Inventory[k].unit
               /\ last.predictions[k].predicted_status =
                      expiry_tree[OwnFeatures(Inventory[k])]

C19_Witness ==
    /\ BatchAnalysed
    /\ Len(last.predictions) = 2
    /\ OwnFeatures(Inventory[1]) # OwnFeatures(Inventory[2])
    /\ last.predictions[1].predicted_status # last.predictions[2].predicted_status

\* C20: an operation that fails outputs nothing: a batch check that does
\* not end analysed shows no entry, total or group; a single prediction
\* whose training fails asks nothing and predicts nothing; a recipe
\* suggestion without a fitted model suggests nothing.
C20_NoPartialResult ==
    /\ (BatchRan /\ last.outcome # "analysed") =>
           /\ last.predictions = <<>>
           /\ last.total = 0
           /\ last.safe_items = <<>>
           /\ last.expire_soon_items = <<>>
           /\ last.expired_items = <<>>
    /\ (last.op = "predict_ingredient_expiry"
           /\ last.outcome \in {"could_not_train", "KeyError", "ValueError"}) =>
           /\ prompt = Menu
           /\ last.predicted_status = "none"
    /\ (last.op = "suggest_recipes" /\ last.outcome # "suggested") =>
           last.suggested = <<>>

C20_Witness ==
    /\ BatchRan
    /\ last.outcome = "error_in_analysis"
    /\ Len(Inventory) = 2
    /\ Inventory[1].storage_type \in KnownStorages

\* C21: every row of the ingredient store has quantity > 0, whatever sequence
\* of add_ingredient, update_ingredient and remove_ingredient produced it.
C21_QuantityPositive ==
    \A i \in 1..Len(Inventory) : Inventory[i].quantity > 0

(***************************************************************************)
(* The main menu loop (modules/menu.py, main.py)                           *)
(***************************************************************************)

\* The exception classes the features raise, each with its base class
\* (pandas.errors.EmptyDataError derives from ValueError).
ExceptionBase ==
    [RecursionError    |-> "RuntimeError",
     RuntimeError      |-> "Exception",
     EmptyDataError    |-> "ValueError",
     ValueError        |-> "Exception",
     KeyError          |-> "LookupError",
     LookupError       |-> "Exception",
     FileNotFoundError |-> "OSError",
     OSError           |-> "Exception",
     Exception         |-> "BaseException",
     KeyboardInterrupt |-> "BaseException"]

\* issubclass(cls, base), which an except clause tests
RECURSIVE IsSubclass(_, _)
IsSubclass(cls, base) ==
    \/ cls = base
    \/ cls \in DOMAIN ExceptionBase /\ IsSubclass(ExceptionBase[cls], base)

\* The exception that left the feature whose result is given, or "none".
Raised(result) ==
    IF result.outcome \in DOMAIN ExceptionBase THEN result.outcome ELSE "none"

\* An exception has left a feature and no except clause has taken it yet.
Propagating == Raised(last) # "none"

\* Where the process is once main_menu's loop is left.
Goodbye == [Menu EXCEPT !.at = "goodbye"]
ErrorExit == [Menu EXCEPT !.at = "error_exit"]
Traceback == [Menu EXCEPT !.at = "traceback"]

\* What the user may type at "Enter choice (1-9)" besides a feature's number.
MenuChoices == {"8", "9", "x"}

\* main_menu's loop for the choices that call no feature: Help, Exit and
\* an invalid choice.
MainMenuChoice(choice) ==
    LET result(outcome) == [NoResult EXCEPT !.op = "main_menu",
                                            !.outcome = outcome]
    IN  /\ AtMenu
        /\ ~Propagating
        /\ UNCHANGED <<recipes_csv, ml_dataset_csv, ingredients_csv,
                       expiry_dataset_csv, ledgers, today, expiry_tree>>
        /\ IF choice = "9"
           THEN last' = result("exit") /\ prompt' = Goodbye
           ELSE IF choice = "8"
           THEN last' = result("help") /\ UNCHANGED prompt
           ELSE last' = result("invalid_choice") /\ UNCHANGED prompt

\* Ctrl+C while input() waits, at the menu or at a prompt of a feature: the
\* KeyboardInterrupt leaves the feature.
KeyboardInterruptAtInput ==
    /\ prompt.at \in {"menu", "ingredient_type", "days_since", "storage_type"}
    /\ ~Propagating
    /\ last' = [NoResult EXCEPT !.op = "input", !.outcome = "KeyboardInterrupt"]
    /\ prompt' = Menu
    /\ UNCHANGED <<recipes_csv, ml_dataset_csv, ingredients_csv,
                   expiry_dataset_csv, ledgers, today, expiry_tree>>

\* main_menu's `except Exception` taking only a missing file.
MainMenuCatchesFileNotFound(raised) == IsSubclass(raised, "FileNotFoundError")

\* main_menu: except Exception as e
MainMenuCatches(raised) == IsSubclass(raised, "Exception")

\* main(): where the process ends when an exception leaves main_menu
MainExcept(raised) ==
    IF IsSubclass(raised, "KeyboardInterrupt") THEN Goodbye
    ELSE IF IsSubclass(raised, "Exception") THEN ErrorExit
    ELSE Traceback

\* The except clauses of main_menu's loop, for the exception that left the
\* feature called in the try block.
MainMenuExcept ==
    LET raised == Raised(last)
        result(outcome) == [NoResult EXCEPT !.op = "main_menu",
                                            !.outcome = outcome]
    IN  /\ AtMenu
        /\ Propagating
        /\ UNCHANGED <<recipes_csv, ml_dataset_csv, ingredients_csv,
                       expiry_dataset_csv, ledgers, today, expiry_tree>>
        /\ IF IsSubclass(raised, "KeyboardInterrupt")
           THEN last' = result("interrupted") /\ prompt' = Goodbye
           ELSE IF MainMenuCatches(raised)
           THEN last' = result("error_reported") /\ UNCHANGED prompt
           ELSE last' = result("uncaught") /\ prompt' = MainExcept(raised)

\* The features main_menu calls in its try block.
MenuAddNewRecipe ==
    /\ ~Propagating
    /\ \E name_input \in {<<"a">>, <<"B">>}, ingredients_input \in TypedIngredients :
           AddNewRecipe(name_input, ingredients_input)

MenuSuggestRecipes == ~Propagating /\ SuggestRecipes

MenuPredictIngredientExpiry == ~Propagating /\ PredictIngredientExpiry

MenuEnterIngredientType ==
    ~Propagating /\ \E user_type \in TypeInputs : EnterIngredientType(user_type)

MenuEnterDaysSince ==
    ~Propagating /\ \E user_days \in DaysInputs : EnterDaysSince(user_days)

MenuEnterStorageType ==
    /\ ~Propagating
    /\ \E user_storage \in ExpiryStorageInputs : EnterStorageType(user_storage)

MenuCheckCurrentIngredientsExpiry == ~Propagating /\ CheckCurrentIngredientsExpiry

MenuGetAllPossibleRecipes == ~Propagating /\ GetAllPossibleRecipes

MenuInit ==
    /\ recipes_csv \in {NoFile, WriteRecipes(<<>>)}
    /\ ml_dataset_csv \in {NoFile, GenerateMlDataset(recipes_csv, NoFile)}
    /\ ingredients_csv \in {NoFile, FoundInventory}
    /\ last = NoResult
    /\ expiry_dataset_csv \in ExpiryDatasets
    /\ today = 0
    /\ expiry_tree = <<>>
    /\ prompt = Menu
    /\ waste_csv = NoFile
    /\ expenses_csv = NoFile

MenuNext ==
    \/ \E choice \in MenuChoices : MainMenuChoice(choice)
    \/ KeyboardInterruptAtInput
    \/ MainMenuExcept
    \/ MenuAddNewRecipe
    \/ MenuSuggestRecipes
    \/ MenuPredictIngredientExpiry
    \/ MenuEnterIngredientType
    \/ MenuEnterDaysSince
    \/ MenuEnterStorageType
    \/ MenuCheckCurrentIngredientsExpiry
    \/ MenuGetAllPossibleRecipes

MenuSpec == MenuInit /\ [][MenuNext]_vars

\* C22: an exception that leaves a feature is caught and reported by
\* main_menu, after which the menu is shown again; the loop ends only on the
\* Exit choice or a keyboard interrupt, never with an error.
C22_NeverCrashes ==
    [][/\ prompt'.at \notin {"error_exit", "traceback"}
       /\ (Propagating /\ ~IsSubclass(Raised(last), "KeyboardInterrupt")
             => AtMenu' /\ last'.outcome = "error_reported")
       /\ (prompt' = Goodbye /\ prompt # Goodbye
             => \/ last.outcome = "KeyboardInterrupt"
                \/ last'.outcome = "exit")]_vars

\* An exception left a feature, main_menu reported it and shows the menu.
C22_Witness ==
    /\ last.op = "main_menu"
    /\ last.outcome = "error_reported"
    /\ AtMenu

(***************************************************************************)
(* generate_ml_dataset, with the iteration order of its set spelled out    *)
(***************************************************************************)

\* list(all_ingredients): the elements of the set in the order the set
\* iterates them, which for strings changes from one run to the next.
SetIterationOrders(S) ==
    {order \in [1..Cardinality(S) -> S] :
        \A i, j \in 1..Cardinality(S) : order[i] = order[j] => i = j}

\* The list as it is, not sorted.
Unsorted(list) == list

\* sorted(list): each element goes before the first one that is not less
\* than it.
RECURSIVE Sorted(_)
Sorted(list) ==
    IF list = <<>> THEN <<>>
    ELSE LET rest == Sorted(Tail(list))
             Before(k) == \A j \in 1..k : StrLess(rest[j], Head(list))
             n == CHOOSE k \in 0..Len(rest) :
                      Before(k) /\ (k < Len(rest) => ~Before(k + 1))
         IN  SubSeq(rest, 1, n) \o <<Head(list)>> \o SubSeq(rest, n + 1, Len(rest))

\* The set all_ingredients that generate_ml_dataset collects.
AllIngredientsSet(recipes_df) ==
    UNION {Range(CleanIngredients(recipes_df[i].ingredients)) :
               i \in 1..Len(recipes_df)}

\* generate_ml_dataset() in a run where the set iterates as ingredients_list.
GenerateMlDatasetIterating(recipes, ml, ingredients_list) ==
    IF ~recipes.exists THEN ml
    ELSE CHOOSE file \in
           {WriteDataset([i \in 1..Len(ReadRecipes(recipes)) |->
                             BinaryRow(ReadRecipes(recipes)[i], all_ingredients)],
                         all_ingredients) :
              all_ingredients \in {Sorted(ingredients_list)}} : TRUE

EncodeNext ==
    \/ \E name_input \in NameInputs, ingredients_input \in IngredientsInputs :
           AddNewRecipe(name_input, ingredients_input)
    \/ RegenerateDataset

EncodeSpec == Init /\ [][EncodeNext]_vars

\* C23: generate_ml_dataset is deterministic: for one recipe catalog every
\* iteration order of the ingredient set gives one and the same dataset file
\* (same feature columns in the same order, same rows, same label order),
\* which is the file a run has just written.
C23_Deterministic ==
    recipes_csv.exists =>
        \E written \in {GenerateMlDataset(recipes_csv, ml_dataset_csv)} :
            /\ \A order \in SetIterationOrders(
                                AllIngredientsSet(ReadRecipes(recipes_csv))) :
                   GenerateMlDatasetIterating(recipes_csv, ml_dataset_csv, order)
                   = written
            /\ (last.outcome \in {"generated", "added"}
                  => ml_dataset_csv = written)

\* A dataset has just been generated for a catalog whose ingredient set has
\* several iteration orders.
C23_Witness ==
    /\ last.op = "generate_ml_dataset"
    /\ last.outcome = "generated"
    /\ Len(recipes_csv.rows) >= 2
    /\ Cardinality(AllIngredientsSet(ReadRecipes(recipes_csv))) >= 3

\* C24: retraining is idempotent.  A suggest_recipes call that directly
\* follows another one, over the same recipe, dataset and inventory files,
\* suggests the same recipe; and an expiry prediction for a feature row that
\* was classified before gives the label it got then.
C24_RetrainIdempotent ==
    [][/\ ((/\ last.op = "suggest_recipes"
            /\ last.outcome = "suggested"
            /\ last'.op = "suggest_recipes"
            /\ last'.outcome = "suggested"
            /\ UNCHANGED <<recipes_csv, ml_dataset_csv, ingredients_csv>>)
           => last'.suggested = last.suggested)
       /\ ((/\ last'.op = "predict_ingredient_expiry"
            /\ last'.outcome = "predicted"
            /\ FeatureRow(last'.vector) \in DOMAIN expiry_tree)
           => last'.predicted_status = expiry_tree[FeatureRow(last'.vector)])]_vars

\* A recipe has been suggested by a tree fitted to two different labels, and
\* the expiry tree has classified a feature row: the next call of either
\* kind retrains on unchanged data.
C24_Witness ==
    /\ last.op = "suggest_recipes"
    /\ last.outcome = "suggested"
    /\ Cardinality(Range(last.labels)) >= 2
    /\ DOMAIN expiry_tree # {}

\* C25: the feasibility operations are pure.  A get_all_possible_recipes
\* step leaves ingredients.csv, recipes.csv and ml_dataset.csv as they were,
\* and directly after another one it gives the same result again; a
\* suggest_recipes step, which runs check_recipe_feasibility, leaves
\* recipes.csv and ingredients.csv as they were; and the batch expiry
\* classification leaves ingredients.csv as it was.
C25_FeasibilityPure ==
    [][/\ (last'.op = "get_all_possible_recipes"
             => UNCHANGED <<recipes_csv, ml_dataset_csv, ingredients_csv>>)
       /\ ((last.op = "get_all_possible_recipes"
              /\ last'.op = "get_all_possible_recipes")
             => last' = last)
       /\ (last'.op = "suggest_recipes"
             => UNCHANGED <<recipes_csv, ingredients_csv>>)
       /\ (last'.op = "check_current_ingredients_expiry"
             => UNCHANGED ingredients_csv)]_vars

\* get_all_possible_recipes has listed a recipe from a stocked inventory.
C25_Witness ==
    /\ last.op = "get_all_possible_recipes"
    /\ last.outcome = "listed"
    /\ Len(last.listed) >= 1
    /\ ingredients_csv.exists

\* C26: load_available_ingredients returns exactly the names of the rows of
\* ingredients.csv with quantity > 0, in row order, and the empty list when
\* the file is missing: a name whose rows all have quantity 0 is in no
\* availability list that suggest_recipes or get_all_possible_recipes uses.
C26_AvailableInStock ==
    last.op \in {"suggest_recipes", "get_all_possible_recipes"} =>
        /\ (~ingredients_csv.exists => last.available = <<>>)
        /\ Range(last.available)
           = {Inventory[i].name : i \in {j \in 1..Len(Inventory) :
                                            Inventory[j].quantity > 0}}
        /\ Len(last.available)
           = Cardinality({j \in 1..Len(Inventory) : Inventory[j].quantity > 0})
        /\ \A i \in 1..Len(Inventory) :
              (\A j \in 1..Len(Inventory) :
                   Inventory[j].name = Inventory[i].name
                     => Inventory[j].quantity = 0)
                => Inventory[i].name \notin Range(last.available)

\* An availability list was computed while a row updated to quantity 0 was
\* in the store next to a row in stock.
C26_Witness ==
    /\ last.op \in {"suggest_recipes", "get_all_possible_recipes"}
    /\ \E i, j \in 1..Len(Inventory) :
          /\ Inventory[i].quantity = 0
          /\ Inventory[j].quantity > 0
          /\ Inventory[i].name \notin Range(last.available)
          /\ Inventory[j].name \in Range(last.available)

(***************************************************************************)
(* load_ml_dataset, call by call                                           *)
(***************************************************************************)

\* train_recipe_model() calls load_ml_dataset().
CallLoadMlDataset ==
    /\ AtMenu
    /\ prompt' = [Menu EXCEPT !.at = "load_ml_dataset", !.depth = 1]
    /\ last' = [NoResult EXCEPT !.op = "load_ml_dataset", !.outcome = "called"]
    /\ UNCHANGED <<recipes_csv, ml_dataset_csv, ingredients_csv,
                   expiry_dataset_csv, ledgers, today, expiry_tree>>

\* The body of the innermost call of load_ml_dataset.  With the file there
\* it returns (X, y, ml_df), or read_csv raises EmptyDataError, and every
\* outer call returns the same.  Without the file it runs
\* generate_ml_dataset() and calls itself, which raises RecursionError once
\* the interpreter's limit is reached.
LoadMlDatasetBody ==
    LET result(outcome) == [NoResult EXCEPT !.op = "load_ml_dataset",
                                            !.outcome = outcome]
    IN  /\ prompt.at = "load_ml_dataset"
        /\ UNCHANGED <<recipes_csv, ingredients_csv, expiry_dataset_csv, ledgers,
                       today, expiry_tree>>
        /\ IF ml_dataset_csv.exists
           THEN /\ last' = [result(IF ReadDataset(ml_dataset_csv).status = "ok"
                                   THEN "returned"
                                   ELSE ReadDataset(ml_dataset_csv).status)
                            EXCEPT !.nrows = Len(ml_dataset_csv.rows)]
                /\ prompt' = Menu
                /\ UNCHANGED ml_dataset_csv
           ELSE /\ ml_dataset_csv' = GenerateMlDataset(recipes_csv, ml_dataset_csv)
                /\ IF prompt.depth >= RecursionLimit
                   THEN /\ last' = result("RecursionError")
                        /\ prompt' = Menu
                   ELSE /\ last' = result("called")
                        /\ prompt' = [prompt EXCEPT !.depth = prompt.depth + 1]

LoadNext ==
    \/ \E name_input \in NameInputs, ingredients_input \in IngredientsInputs :
           AddNewRecipe(name_input, ingredients_input)
    \/ RegenerateDataset
    \/ CallLoadMlDataset
    \/ LoadMlDatasetBody

LoadSpec == Init /\ [][LoadNext]_vars

\* C27: load_ml_dataset calls itself again only after generate_ml_dataset
\* has created ml_dataset.csv, so that the nested call returns: it never
\* goes on calling itself until the interpreter's recursion limit ends it.
C27_LoadTerminates ==
    /\ (prompt.at = "load_ml_dataset" /\ prompt.depth > 1
          => ml_dataset_csv.exists)
    /\ (last.op = "load_ml_dataset" => last.outcome # "RecursionError")

(***************************************************************************)
(* The waste tracker (modules/waste.py) and the expense tracker            *)
(* (modules/expense.py)                                                    *)
(***************************************************************************)

\* valid_reasons of add_waste_entry
valid_reasons ==
    {<<"e", "x", "p", "i", "r", "e", "d">>, <<"s", "p", "o", "i", "l", "e", "d">>,
     <<"l", "e", "f", "t", "o", "v", "e", "r">>,
     <<"o", "v", "e", "r", "c", "o", "o", "k", "e", "d">>,
     <<"b", "u", "r", "n", "t">>}

\* The reason and the cost the user types.
ReasonInputs == {<<" ", "B", "u", "r", "n", "t">>, <<"o", "l", "d">>}

CostInputs == {-1, 0}

\* pd.read_csv(waste.csv)
ReadWaste(file) ==
    [i \in 1..Len(file.rows) |->
        [id       |-> file.rows[i].id,
         name     |-> ReadCell(file.rows[i].name),
         quantity |-> file.rows[i].quantity,
         unit     |-> ReadCell(file.rows[i].unit),
         reason   |-> ReadCell(file.rows[i].reason),
         date     |-> file.rows[i].date,
         cost     |-> file.rows[i].cost]]

\* save_waste_data(df)
WriteWaste(df) ==
    File(<<>>,
         [i \in 1..Len(df) |->
             [id       |-> df[i].id,
              name     |-> WriteCell(df[i].name),
              quantity |-> df[i].quantity,
              unit     |-> WriteCell(df[i].unit),
              reason   |-> WriteCell(df[i].reason),
              date     |-> df[i].date,
              cost     |-> df[i].cost]])

\* load_waste_data(): the table, and the file (created when missing).
LoadWasteData(file) ==
    IF file.exists THEN [df |-> ReadWaste(file), file |-> file]
    ELSE [df |-> <<>>, file |-> WriteWaste(<<>>)]

WasteIds(df) == {df[i].id : i \in 1..Len(df)}

\* new_id counted from the number of rows instead of the largest id.
NewWasteIdByCount(df) == Len(df) + 1

NewWasteId(df) ==
    IF Len(df) = 0 THEN 1
    ELSE (CHOOSE m \in WasteIds(df) : \A x \in WasteIds(df) : x <= m) + 1

\* add_waste_entry(): the prompts for quantity, unit, reason and cost repeat
\* until the answer is valid.
AddWasteEntry(name_input, quantity, unit_input, reason_input, cost) ==
    LET loaded == LoadWasteData(waste_csv)
        unit == LowerStr(Strip(unit_input))
        reason_lower == LowerStr(Strip(reason_input))
        new_waste == [id |-> NewWasteId(loaded.df),
                      name |-> Title(Strip(name_input)),
                      quantity |-> quantity, unit |-> unit,
                      reason |-> Title(reason_lower),
                      date |-> today, cost |-> cost]
    IN  /\ AtMenu
        /\ quantity > 0
        /\ unit \in valid_units
        /\ reason_lower \in valid_reasons
        /\ cost >= 0
        /\ new_waste.id <= MaxWasteId
        /\ waste_csv' = WriteWaste(Append(loaded.df, new_waste))
        /\ last' = NoResult
        /\ UNCHANGED <<recipes_csv, ml_dataset_csv, ingredients_csv,
                       expiry_dataset_csv, today, expiry_tree, prompt,
                       expenses_csv>>

\* delete_waste_entry()
DeleteWasteEntry(waste_id, confirmed) ==
    LET loaded == LoadWasteData(waste_csv)
        Other(row) == row.id # waste_id
    IN  /\ AtMenu
        /\ last' = NoResult
        /\ UNCHANGED <<recipes_csv, ml_dataset_csv, ingredients_csv,
                       expiry_dataset_csv, today, expiry_tree, prompt,
                       expenses_csv>>
        /\ IF Len(loaded.df) = 0
           THEN waste_csv' = loaded.file
           ELSE /\ waste_id \in WasteIds(loaded.df)
                /\ waste_csv' = IF confirmed
                                THEN WriteWaste(SelectSeq(loaded.df, Other))
                                ELSE loaded.file

\* pd.read_csv(expenses.csv)
ReadExpenses(file) ==
    [i \in 1..Len(file.rows) |->
        [id   |-> file.rows[i].id,
         name |-> ReadCell(file.rows[i].name),
         cost |-> file.rows[i].cost]]

\* save_expenses(df)
WriteExpenses(df) ==
    File(<<>>,
         [i \in 1..Len(df) |->
             [id   |-> df[i].id,
              name |-> WriteCell(df[i].name),
              cost |-> df[i].cost]])

\* load_expenses(): the table, and the file (created when missing).
LoadExpenses(file) ==
    IF file.exists THEN [df |-> ReadExpenses(file), file |-> file]
    ELSE [df |-> <<>>, file |-> WriteExpenses(<<>>)]

ExpenseIds(df) == {df[i].id : i \in 1..Len(df)}

NewExpenseId(df) ==
    IF Len(df) = 0 THEN 1
    ELSE (CHOOSE m \in ExpenseIds(df) : \A x \in ExpenseIds(df) : x <= m) + 1

\* add_expense(): the prompt for the cost repeats until it is not negative.
AddExpense(name_input, cost) ==
    LET loaded == LoadExpenses(expenses_csv)
        new_expense == [id |-> NewExpenseId(loaded.df),
                        name |-> Title(Strip(name_input)), cost |-> cost]
    IN  /\ AtMenu
        /\ cost >= 0
        /\ new_expense.id <= MaxExpenseId
        /\ expenses_csv' = WriteExpenses(Append(loaded.df, new_expense))
        /\ last' = NoResult
        /\ UNCHANGED <<recipes_csv, ml_dataset_csv, ingredients_csv,
                       expiry_dataset_csv, today, expiry_tree, prompt,
                       waste_csv>>

\* delete_expense()
DeleteExpense(expense_id, confirmed) ==
    LET loaded == LoadExpenses(expenses_csv)
        Other(row) == row.id # expense_id
    IN  /\ AtMenu
        /\ last' = NoResult
        /\ UNCHANGED <<recipes_csv, ml_dataset_csv, ingredients_csv,
                       expiry_dataset_csv, today, expiry_tree, prompt,
                       waste_csv>>
        /\ IF Len(loaded.df) = 0
           THEN expenses_csv' = loaded.file
           ELSE /\ expense_id \in ExpenseIds(loaded.df)
                /\ expenses_csv' = IF confirmed
                                   THEN WriteExpenses(SelectSeq(loaded.df, Other))
                                   ELSE loaded.file

(***************************************************************************)
(* The program, seen from the four stores that hand out ids                *)
(***************************************************************************)

LedgerNext ==
    \/ \E unit_input \in UnitInputs, storage_input \in StorageInputs :
           AddIngredient(<<"a">>, 1, unit_input, <<"0", "2">>,
                         storage_input, 0)
    \/ \E ingredient_id \in 1..MaxIngredientId, confirmed \in BOOLEAN :
           RemoveIngredient(ingredient_id, confirmed)
    \/ \E quantity \in QuantityInputs, unit_input \in UnitInputs,
          reason_input \in ReasonInputs, cost \in CostInputs :
           AddWasteEntry(<<"a">>, quantity, unit_input, reason_input, cost)
    \/ \E waste_id \in 1..MaxWasteId, confirmed \in BOOLEAN :
           DeleteWasteEntry(waste_id, confirmed)
    \/ \E cost \in CostInputs : AddExpense(<<"a">>, cost)
    \/ \E expense_id \in 1..MaxExpenseId, confirmed \in BOOLEAN :
           DeleteExpense(expense_id, confirmed)
    \/ \E name_input \in {<<"a">>, <<"B">>} :
           AddNewRecipe(name_input, <<"b">>)

LedgerSpec == Init /\ [][LedgerNext]_vars

\* The ids of a table's rows, in row order.
IdColumn(df) == [i \in 1..Len(df) |-> df[i].id]

NoIdTwice(ids) == \A i, j \in 1..Len(ids) : ids[i] = ids[j] => i = j

\* C28: no two rows of the ingredient store, the waste store, the expense
\* store or the recipe store share an id, whatever adds and deletes made
\* them.
C28_IdsUnique ==
    /\ NoIdTwice(IdColumn(ReadIngredients(ingredients_csv)))
    /\ NoIdTwice(IdColumn(ReadWaste(waste_csv)))
    /\ NoIdTwice(IdColumn(ReadExpenses(expenses_csv)))
    /\ NoIdTwice([i \in 1..Len(ReadRecipes(recipes_csv)) |->
                     ReadRecipes(recipes_csv)[i].recipe_id])

\* The waste store has lost its first row and got another one after it,
\* the ingredient store has lost its first row, and the other stores hold
\* two rows each.
C28_Witness ==
    /\ IdColumn(ReadWaste(waste_csv)) = <<2, 3>>
    /\ IdColumn(ReadIngredients(ingredients_csv)) = <<2>>
    /\ Len(expenses_csv.rows) = 2
    /\ Len(recipes_csv.rows) = 2

(***************************************************************************)
(* expiry.py: check_expiry_simple, remove_expired_ingredients              *)
(***************************************************************************)

\* load_ingredients() of expiry.py: the table, or an empty one when the file
\* is missing (the file is not created).
ExpiryLoadIngredients(file) ==
    IF file.exists THEN ReadIngredients(file) ELSE <<>>

\* ingredients['expiry_date'] = pd.to_datetime(ingredients['expiry_date']).dt.date
WithExpiryDates(ingredients) ==
    [i \in 1..Len(ingredients) |->
        [ingredients[i] EXCEPT !.expiry_date = ToDate(ingredients[i].expiry_date)]]

\* save_ingredients(df) of expiry.py, for a table whose expiry_date column
\* holds dates: to_csv writes each of them anew.
SaveIngredientsWithDates(df) ==
    WriteIngredients([i \in 1..Len(df) |->
        [df[i] EXCEPT !.expiry_date = DateToCsv(df[i].expiry_date)]])

\* expired_items and safe_ingredients of remove_expired_ingredients()
ExpiredItems(ingredients) ==
    LET IsExpired(row) == row.expiry_date < today
    IN  SelectSeq(ingredients, IsExpired)

SafeIngredients(ingredients) ==
    LET IsSafe(row) == row.expiry_date >= today
    IN  SelectSeq(ingredients, IsSafe)

\* What remove_expired_ingredients() leaves in ingredients.csv, and what it
\* says.
RemoveExpiredResult(file) ==
    LET ingredients == WithExpiryDates(ExpiryLoadIngredients(file))
        result(outcome) ==
            [NoResult EXCEPT !.op = "remove_expired_ingredients",
                             !.outcome = outcome,
                             !.expired_items = ExpiredItems(ingredients),
                             !.total = Len(SafeIngredients(ingredients))]
    IN  IF Len(ingredients) = 0
        THEN [file |-> file, said |-> result("no_ingredients")]
        ELSE IF Len(ExpiredItems(ingredients)) > 0
        THEN [file |-> SaveIngredientsWithDates(SafeIngredients(ingredients)),
              said |-> result("removed")]
        ELSE [file |-> file, said |-> result("no_expired_items")]

\* remove_expired_ingredients(), choice 2 of expiry_check_menu
RemoveExpiredIngredients ==
    /\ AtMenu
    /\ \E done \in {RemoveExpiredResult(ingredients_csv)} :
         /\ ingredients_csv' = done.file
         /\ last' = done.said
    /\ UNCHANGED <<recipes_csv, ml_dataset_csv, expiry_state>>

\* Answers to "Do you want to remove expired ingredients? (yes/no)"
RemoveChoiceInputs == {<<" ", "Y", "e", "s">>, <<"n", "o">>}

\* check_expiry_simple(), choice 1 of expiry_check_menu: the rows are put in
\* expired_items when today > expiry_date and in safe_items otherwise; with
\* expired rows and the answer 'yes' it calls remove_expired_ingredients().
CheckExpirySimple(choice_input) ==
    LET ingredients == WithExpiryDates(ExpiryLoadIngredients(ingredients_csv))
        IsExpired(row) == today > row.expiry_date
        IsSafe(row) == ~(today > row.expiry_date)
        choice == LowerStr(Strip(choice_input))
        result(outcome) ==
            [NoResult EXCEPT !.op = "check_expiry_simple",
                             !.outcome = outcome,
                             !.total = Len(ingredients),
                             !.safe_items = SelectSeq(ingredients, IsSafe),
                             !.expired_items = SelectSeq(ingredients, IsExpired)]
    IN  /\ AtMenu
        /\ UNCHANGED <<recipes_csv, ml_dataset_csv, expiry_state>>
        /\ IF Len(ingredients) = 0
           THEN /\ last' = result("no_ingredients")
                /\ UNCHANGED ingredients_csv
           ELSE IF Len(SelectSeq(ingredients, IsExpired)) = 0
           THEN /\ last' = result("checked")
                /\ UNCHANGED ingredients_csv
           ELSE IF choice = <<"y", "e", "s">>
           THEN /\ last' = result("removed")
                /\ ingredients_csv' = RemoveExpiredResult(ingredients_csv).file
           ELSE /\ last' = result("kept_in_stock")
                /\ UNCHANGED ingredients_csv

PurgeInit ==
    /\ recipes_csv = NoFile
    /\ ml_dataset_csv = NoFile
    /\ ingredients_csv = NoFile
    /\ last = NoResult
    /\ expiry_dataset_csv = NoFile
    /\ today \in ClockDays
    /\ expiry_tree = <<>>
    /\ prompt = Menu
    /\ waste_csv = NoFile
    /\ expenses_csv = NoFile

PurgeNext ==
    \/ \E date_input \in ExpiryDateInputs, cost \in CostInputs :
           AddIngredient(<<"a">>, 1, <<"k", "g">>, date_input, Fridge, cost)
    \/ \E ingredient_id \in 1..MaxIngredientId, confirmed \in BOOLEAN :
           RemoveIngredient(ingredient_id, confirmed)
    \/ \E day \in ClockDays : ClockChange(day)
    \/ \E choice_input \in RemoveChoiceInputs : CheckExpirySimple(choice_input)
    \/ RemoveExpiredIngredients

PurgeSpec == PurgeInit /\ [][PurgeNext]_vars

\* The rows of a table whose expiry date is today or later.
NotExpiredRows(df) ==
    LET Kept(row) == ToDate(row.expiry_date) >= today
    IN  SelectSeq(df, Kept)

\* C29: remove_expired_ingredients (called from the menu or by
\* check_expiry_simple after the answer 'yes') leaves in the store exactly
\* the rows whose expiry date is today or later, each of them as it was
\* stored; the rows it takes away are the ones check_expiry_simple lists as
\* expired on the same day; and when no row is expired the store is left as
\* it was.
C29_RemovesExactlyExpired ==
    [][(\/ last'.op = "remove_expired_ingredients"
        \/ last'.op = "check_expiry_simple" /\ last'.outcome = "removed")
       => /\ ReadIngredients(ingredients_csv')
               = NotExpiredRows(ReadIngredients(ingredients_csv))
          /\ (last'.op = "check_expiry_simple"
                => IngredientIds(last'.expired_items)
                     = IngredientIds(ReadIngredients(ingredients_csv))
                         \ IngredientIds(ReadIngredients(ingredients_csv')))
          /\ (NotExpiredRows(ReadIngredients(ingredients_csv))
                 = ReadIngredients(ingredients_csv)
                => ingredients_csv' = ingredients_csv)]_vars

(***************************************************************************)
(* An inventory built by add_ingredient, update_ingredient and             *)
(* remove_ingredient alone, and its batch classification                   *)
(***************************************************************************)

\* Answers to the unit and storage prompts of add_ingredient, valid and not.
StoreUnitInputs == {<<"K", "g">>, <<"c", "u", "p">>}

StoreStorageInputs ==
    {<<"F", "r", "i", "d", "g", "e", " ">>, <<"P", "A", "N", "T", "R", "Y">>,
     <<"f", "r", "e", "e", "z", "e", "r">>, <<"s", "h", "e", "l", "f">>}

\* The ids the user gives to update_ingredient.
StoreUpdateIds == {1}

\* The data directory holds no inventory yet, or an empty one, and an
\* expiry dataset a tree can be fitted to.
StoreInit ==
    /\ recipes_csv = NoFile
    /\ ml_dataset_csv = NoFile
    /\ ingredients_csv \in {NoFile, WriteIngredients(<<>>)}
    /\ last = NoResult
    /\ expiry_dataset_csv \in
           {d \in ExpiryDatasets : TrainExpiryModel(d).status = "ok"}
    /\ today = 0
    /\ expiry_tree = <<>>
    /\ prompt = Menu
    /\ waste_csv = NoFile
    /\ expenses_csv = NoFile

StoreNext ==
    \/ \E unit_input \in StoreUnitInputs, storage_input \in StoreStorageInputs,
          cost \in CostInputs :
           AddIngredient(<<"a">>, 1, unit_input, <<"0", "2">>,
                         storage_input, cost)
    \/ \E ingredient_id \in StoreUpdateIds, new_quantity \in QuantityInputs :
           UpdateIngredient(ingredient_id, new_quantity)
    \/ \E ingredient_id \in 1..MaxIngredientId, confirmed \in BOOLEAN :
           RemoveIngredient(ingredient_id, confirmed)
    \/ CheckCurrentIngredientsExpiry

StoreSpec == StoreInit /\ [][StoreNext]_vars

\* The row of a table with a given id.
RowWithId(df, id) == df[CHOOSE i \in 1..Len(df) : df[i].id = id]

\* C30: in an inventory built by add_ingredient, update_ingredient and
\* remove_ingredient every row has a storage type among fridge, pantry and
\* freezer, a unit among the valid units and a cost of at least 0; a row
\* that stays keeps its storage type, unit and cost; and the batch expiry
\* classification of such an inventory never stops at a storage type its
\* encoding does not hold.
C30_StorageAlwaysKnown ==
    [][LET before == ReadIngredients(ingredients_csv)
           after == ReadIngredients(ingredients_csv')
       IN  /\ \A i \in 1..Len(after) :
                /\ after[i].storage_type \in {Fridge, Pantry, Freezer}
                /\ after[i].unit \in valid_units
                /\ after[i].cost >= 0
           /\ \A id \in IngredientIds(before) \cap IngredientIds(after) :
                /\ RowWithId(after, id).storage_type = RowWithId(before, id).storage_type
                /\ RowWithId(after, id).unit = RowWithId(before, id).unit
                /\ RowWithId(after, id).cost = RowWithId(before, id).cost
           /\ (last'.op = "check_current_ingredients_expiry"
                 => /\ last'.outcome # "error_in_analysis"
                    /\ RowsPredicted(after) = Len(after))]_vars

\* Two rows in different storage, one of them updated to quantity 0, have
\* been classified.
C30_Witness ==
    /\ Len(ingredients_csv.rows) = 2
    /\ ingredients_csv.rows[1].storage_type = Pantry
    /\ ingredients_csv.rows[2].storage_type = Freezer
    /\ ingredients_csv.rows[1].quantity = 0
    /\ last.op = "check_current_ingredients_expiry"
    /\ last.outcome = "analysed"
    /\ last.total = 2

====
